---- MODULE Spec2Model ----
(***************************************************************************)
(* Physical memory management of the polaris kernel: the sparse memory map *)
(* (crates/pmm/src/memmap.rs), the buddy allocator                         *)
(* (crates/pmm/src/physical_memory_manager.rs), the boot-time seeding of   *)
(* the allocator (crates/kernel/src/mem.rs, init_pmm), the block allocator *)
(* (crates/pmm/src/block_allocator.rs) and the page directory              *)
(* (crates/pmm/src/page_directory.rs).                                     *)
(*                                                                         *)
(* Physical addresses are byte addresses.  Free blocks are nodes of an     *)
(* intrusive singly linked list: the next pointer of a free block is the   *)
(* first word of the block, reached through the direct map.                *)
(***************************************************************************)
EXTENDS Integers, Sequences, FiniteSets, TLC

(***************************************************************************)
(* Program constants.                                                      *)
(***************************************************************************)
VARIABLE arch   \* the build: the architecture module behind crate::arch

MAX_ORDER == 11
NUM_FREE_LISTS == MAX_ORDER + 1
\* arch::software::PAGE_SIZE and arch::x86_64::PAGE_SIZE.
SOFTWARE_PAGE_SIZE == 16
X86_64_PAGE_SIZE == 4096
\* arch::PAGE_SIZE: software under test and the software-emulation feature,
\* x86_64 otherwise.
PAGE_SIZE == IF arch = "x86_64" THEN X86_64_PAGE_SIZE ELSE SOFTWARE_PAGE_SIZE
\* arch::software::MAX_PHYSICAL_BITS.
SOFTWARE_MAX_PHYSICAL_BITS == 16
\* arch::validate_physical.  The 48-bit limit of x86_64 is above every
\* address of the model.
validate_physical(addr) ==
  arch = "x86_64" \/ addr <= (2 ^ SOFTWARE_MAX_PHYSICAL_BITS) - 1
ORDER_NOT_BUDDY == 255
FRAMES_PER_SECTION == 32768
NULL == 0

(***************************************************************************)
(* Bounds of the model.                                                    *)
(***************************************************************************)
\* Number of frames of physical memory in the boot maps of Spec.
MemFrames == 4
\* Largest in-range order requested by allocate / allocate_aligned in Spec.
MaxReqOrder == 2
\* Live allocations the clients of SpecHole and SpecMisuse hold at once.
MaxHeld == 2
\* Calls of SpecMisuse from the first deallocate of a block that is not live.
MaxMisuse == 3
\* Calls the seed-and-drain client makes in one step of SpecDrain.
DrainBatch == 32
\* Pages of the address space the clients of SpecBlock pass to add.
BlockPages == 4
\* Blocks the client of SpecBlock holds at once.
MaxBlocks == 2
\* Bytes of emulated memory (AddressTranslator::emulated): room for four
\* page tables.
EmulatedSize == 64
\* Host address of the buffer of the emulated memory.
HostBase == 65536
\* Executors (cores, or threads of a test) that call set_current or current.
MaxExecutors == 2
\* Blocks the executors of SpecConc push on and pop from one free list.
ConcBlocks == 2
\* Offset of the direct map (AddressTranslator::Hardware).
DirectMapOffset == 4096

Orders == 0..MAX_ORDER
Min(S) == CHOOSE x \in S : \A y \in S : x <= y
Max(S) == CHOOSE x \in S : \A y \in S : x >= y

(***************************************************************************)
(* Address translation and frame numbers.                                  *)
(***************************************************************************)
phys_to_virt(phys) == phys + DirectMapOffset
virt_to_phys(virt) == virt - DirectMapOffset
phys_to_ptr(addr) == phys_to_virt(addr)
ptr_to_phys(ptr) == virt_to_phys(ptr)
block_to_address(block) == ptr_to_phys(block)
\* The mutant of From<PhysicalAddress> for FrameNumber that rounds up.
frame_number_rounds_up(addr) == (addr + PAGE_SIZE - 1) \div PAGE_SIZE
frame_number(addr) == addr \div PAGE_SIZE
BlockSize(order) == (2 ^ order) * PAGE_SIZE

(***************************************************************************)
(* Boot memory regions and the memory map built from them.                 *)
(***************************************************************************)
Region(base, size, usable) == [base |-> base, size |-> size, usable |-> usable]
Usable(first, n) == Region(first * PAGE_SIZE, n * PAGE_SIZE, TRUE)
NonUsable(first, n) == Region(first * PAGE_SIZE, n * PAGE_SIZE, FALSE)
RegionEnd(r) == r.base + r.size

max_address(bm) ==
  IF Len(bm) = 0 THEN 0 ELSE Max({RegionEnd(bm[i]) : i \in 1..Len(bm)})

section_count_for_address(maxaddr) ==
  ((maxaddr \div PAGE_SIZE) \div FRAMES_PER_SECTION) + 1

\* The last region of the boot map containing addr decides.
RECURSIVE is_frame_usable_from(_, _, _, _)
is_frame_usable_from(addr, bm, i, usable) ==
  IF i > Len(bm) THEN usable
  ELSE is_frame_usable_from(addr, bm, i + 1,
         IF addr >= bm[i].base /\ addr < RegionEnd(bm[i])
         THEN bm[i].usable ELSE usable)
\* The mutant of is_frame_usable in which the first region containing addr
\* decides.
is_frame_usable_first_wins(addr, bm) ==
  LET containing == {i \in 1..Len(bm) :
                       addr >= bm[i].base /\ addr < RegionEnd(bm[i])}
  IN containing # {} /\ bm[Min(containing)].usable
is_frame_usable(addr, bm) == is_frame_usable_from(addr, bm, 1, FALSE)

\* The usable regions that build_section does not skip for section idx,
\* each clamped to the section, as <<start, end>> frame pairs.
SectionSpans(idx, bm) ==
  LET sstart == idx * FRAMES_PER_SECTION
      send == sstart + FRAMES_PER_SECTION
      rs(i) == bm[i].base \div PAGE_SIZE
      re(i) == RegionEnd(bm[i]) \div PAGE_SIZE
  IN { <<Max({rs(i), sstart}), Min({re(i), send})>> :
         i \in { j \in 1..Len(bm) :
                   /\ bm[j].usable
                   /\ ~(re(j) <= sstart \/ rs(j) >= send) } }

\* The frame numbers that have a Frame record in section idx.
build_section(idx, bm) ==
  LET spans == SectionSpans(idx, bm)
  IN IF spans = {} THEN {}
     ELSE LET min_frame == Min({sp[1] : sp \in spans})
              max_frame == Max({sp[2] : sp \in spans})
          IN min_frame..(max_frame - 1)

DefaultFrame(f, bm) ==
  [flags |-> IF is_frame_usable(f * PAGE_SIZE, bm) THEN {} ELSE {"Reserved"},
   order |-> ORDER_NOT_BUDDY]

from_boot_map(bm) ==
  IF Len(bm) = 0 THEN << >>
  ELSE LET n == section_count_for_address(max_address(bm))
           present == UNION {build_section(idx, bm) : idx \in 0..(n - 1)}
       IN [f \in present |-> DefaultFrame(f, bm)]

allocated_frame_count(mm) == Cardinality(DOMAIN mm)

(***************************************************************************)
(* The memory map as its sections.  A section records start_frame and the  *)
(* length of its frames slice; frames[i] is the Frame that build_section   *)
(* made for frame start_frame + i of the boot map.                         *)
(***************************************************************************)
Section_empty == [start_frame |-> 0, frames |-> FALSE, len |-> 0]
Section_with_frames(start_frame, len) ==
  [start_frame |-> start_frame, frames |-> TRUE, len |-> len]

\* The loop of build_section over the boot map: min_usable_frame and
\* max_usable_frame, some = FALSE while they are None.
RECURSIVE usable_frames(_, _, _, _)
usable_frames(section_idx, bm, i, acc) ==
  IF i > Len(bm) THEN acc
  ELSE LET section_start_frame == section_idx * FRAMES_PER_SECTION
           section_end_frame == section_start_frame + FRAMES_PER_SECTION
           region == bm[i]
           region_start_frame == region.base \div PAGE_SIZE
           region_end_frame == (region.base + region.size) \div PAGE_SIZE
           start == IF region_start_frame > section_start_frame
                    THEN region_start_frame ELSE section_start_frame
           end == IF region_end_frame < section_end_frame
                  THEN region_end_frame ELSE section_end_frame
       IN IF ~region.usable
          THEN usable_frames(section_idx, bm, i + 1, acc)
          ELSE IF region_end_frame <= section_start_frame
                  \/ region_start_frame >= section_end_frame
          THEN usable_frames(section_idx, bm, i + 1, acc)
          ELSE usable_frames(section_idx, bm, i + 1,
                 [some |-> TRUE,
                  min |-> IF acc.some /\ acc.min < start THEN acc.min
                          ELSE start,
                  max |-> IF acc.some /\ acc.max > end THEN acc.max
                          ELSE end])

\* build_section: the section, panics = TRUE when PhysicalAddress::new
\* rejects the address of one of its frames.
Section_build(section_idx, bm) ==
  LET u == usable_frames(section_idx, bm, 1,
                         [some |-> FALSE, min |-> 0, max |-> 0])
  IN IF ~u.some THEN [section |-> Section_empty, panics |-> FALSE]
     ELSE [section |-> Section_with_frames(u.min, u.max - u.min),
           panics |-> u.max > u.min
                      /\ ~validate_physical((u.max - 1) * PAGE_SIZE)]

\* MemoryMap::from_boot_map.
MemoryMap_from_boot_map(bm) ==
  IF Len(bm) = 0 THEN [result |-> "Ok", sections |-> << >>]
  ELSE LET section_count == section_count_for_address(max_address(bm))
           built == [k \in 1..section_count |-> Section_build(k - 1, bm)]
       IN IF \E k \in 1..section_count : built[k].panics
          THEN [result |-> "Panic", sections |-> << >>]
          ELSE [result |-> "Ok",
                sections |-> [k \in 1..section_count |-> built[k].section]]

None == [present |-> FALSE, frame |-> [flags |-> {}, order |-> 0]]
Some(frame) == [present |-> TRUE, frame |-> frame]

\* The mutant of Section::frame that accepts the frame at the end of the
\* slice.
Section_frame_to_end(section, bm, number) ==
  LET start == section.start_frame
      end == start + section.len
      idx == number
  IN IF ~section.frames THEN None
     ELSE IF idx >= start /\ idx <= end
     THEN Some(DefaultFrame(start + (idx - start), bm))
     ELSE None
\* Section::frame.
Section_frame(section, bm, number) ==
  LET start == section.start_frame
      end == start + section.len
      idx == number
  IN IF ~section.frames THEN None
     ELSE IF idx >= start /\ idx < end
     THEN Some(DefaultFrame(start + (idx - start), bm))
     ELSE None

\* MemoryMap::frame.
MemoryMap_frame(secs, bm, number) ==
  LET section_idx == number \div FRAMES_PER_SECTION
  IN IF section_idx >= Len(secs) THEN None
     ELSE Section_frame(secs[section_idx + 1], bm, number)

\* MemoryMap::allocated_frame_count.
RECURSIVE MemoryMap_allocated_frame_count(_)
MemoryMap_allocated_frame_count(secs) ==
  IF Len(secs) = 0 THEN 0
  ELSE (IF Head(secs).frames THEN Head(secs).len ELSE 0)
       + MemoryMap_allocated_frame_count(Tail(secs))

\* Physical memory reachable through the direct map: one next-pointer word
\* at the start of every page below the highest address of the boot map.
PhysFrames(bm) == 0..((max_address(bm) \div PAGE_SIZE) - 1)
BlockPtrs(bm) == {phys_to_ptr(f * PAGE_SIZE) : f \in PhysFrames(bm)}

VARIABLES
  boot_map,      \* the boot memory map handed over by the boot protocol
  memory_map,    \* PhysicalMemoryManager.memory_map: frame number -> Frame
  head,          \* free_lists[k].head
  count,         \* free_lists[k].count
  total_frames,  \* PhysicalMemoryManager.total_frames
  mem,           \* first word of every page: FreeBlock.next
  stopped,       \* TRUE once the allocator makes no further step (see push)
  seed_pos,      \* index of the next deallocate call of init_pmm
  live,          \* blocks returned by an allocation and not yet released
  last,          \* the last call and its result
  stack,         \* seed-and-drain client: the addresses it holds, in order
  phase,         \* seed-and-drain client: "idle", "fill", "drain", "done"
  misuse,        \* calls since the first deallocate of a block that is not live
  memory,        \* BlockAllocator.memory: the regions of the array, in order
  reserved,      \* BlockAllocator.reserved: the regions of the array, in order
  allocs,        \* blocks returned by allocate_raw and not yet freed
  ba_last,       \* the last BlockAllocator call and its result
  overflow_checks, \* the build: TRUE when arithmetic overflow panics
  root,          \* PageDirectory.root: index -> PageEntry
  tables,        \* page tables in emulated memory: address -> index -> entry
  next_alloc,    \* EmulatedMemory.next_alloc
  pd_last,       \* the last PageDirectory call and its result
  pd_after_map,  \* 1 when pd_last is the unmap(v) after a map(v, _), 2 the next
  map_regions,   \* the boot map the memory map was built from
  sections,      \* MemoryMap.sections
  mm_last,       \* the last MemoryMap call and its result
  once_status,   \* ADDRESS_TRANSLATOR (spin::Once): the status of each cell
  once_data,     \* ADDRESS_TRANSLATOR: the translator stored in each cell
  at_pc,         \* executor -> its position in set_current
  at_arg,        \* executor -> the translator it passes to set_current
  at_ok,         \* cell -> number of set_current calls that returned
  at_last,       \* the last current() or conversion call and its result
  ka_mode,       \* KERNEL_ALLOCATOR.inner: the variant of InnerAllocator
  ka_live,       \* pointers returned by alloc and not yet passed to dealloc
  ka_last,       \* the last call of the kernel allocator and its result
  fl_pc,         \* executor -> its position in FreeList::push or pop
  fl_head,       \* executor -> the local head of push or pop
  fl_next,       \* executor -> the local next of pop
  fl_block,      \* executor -> the block it pushes
  fl_owned,      \* executor -> the blocks it holds (popped, not pushed back)
  ka_locked,     \* KERNEL_ALLOCATOR.inner (spin::Mutex): the lock is held
  ka_pc,         \* context -> its position in KernelAllocator alloc/dealloc
  ka_req,        \* context -> the call it is in
  memory_locked,   \* BlockAllocator.memory (spin::Mutex): the lock is held
  reserved_locked, \* BlockAllocator.reserved (spin::Mutex): the lock is held
  ba_pc,         \* executor -> its position in Allocator::allocate/deallocate
  ba_req,        \* executor -> the call it is in
  ff_bits,       \* FrameFlags.0 (AtomicU64) of one frame: the bits that are set
  ff_last        \* the last FrameFlags call and its result

pmm_vars == <<boot_map, memory_map, head, count, total_frames, mem, stopped,
              seed_pos, live, last, stack, phase, misuse>>
block_vars == <<memory, reserved, allocs, ba_last, overflow_checks>>
paging_vars == <<root, tables, next_alloc, pd_last, pd_after_map>>
map_vars == <<arch, map_regions, sections, mm_last>>
at_vars == <<once_status, once_data, at_pc, at_arg, at_ok, at_last>>
ka_vars == <<ka_mode, ka_live, ka_last>>
fl_vars == <<fl_pc, fl_head, fl_next, fl_block, fl_owned>>
lock_vars == <<ka_locked, ka_pc, ka_req, memory_locked, reserved_locked,
               ba_pc, ba_req>>
flag_vars == <<ff_bits, ff_last>>
other_vars == <<at_vars, ka_vars, fl_vars, lock_vars, flag_vars>>
vars == <<pmm_vars, block_vars, paging_vars, map_vars, other_vars>>
client == <<stack, phase>>

(***************************************************************************)
(* The allocator state as one value, so that an operation made of several  *)
(* calls (allocate_aligned, deallocate's merge loop) can be composed.      *)
(***************************************************************************)
PMM == [memory_map |-> memory_map, head |-> head, count |-> count,
        mem |-> mem, stopped |-> stopped]

\* FreeList::new for every order, over the memory map of a boot map.
PhysicalMemoryManager_new(bm) ==
  [memory_map |-> from_boot_map(bm),
   head |-> [k \in Orders |-> NULL],
   count |-> [k \in Orders |-> 0],
   mem |-> [p \in BlockPtrs(bm) |-> NULL],
   stopped |-> FALSE]

\* a XOR b for b a power of two: toggles the one bit of b in a.
XorBit(a, b) == IF (a \div b) % 2 = 0 THEN a + b ELSE a - b

\* Frame::set_order through MemoryMap::frame_mut: nothing when absent.
set_order(s, f, order) ==
  IF f \in DOMAIN s.memory_map
  THEN [s EXCEPT !.memory_map[f].order = order]
  ELSE s

set_flag(s, f, flag) ==
  IF f \in DOMAIN s.memory_map
  THEN [s EXCEPT !.memory_map[f].flags = @ \cup {flag}]
  ELSE s

clear_flag(s, f, flag) ==
  IF f \in DOMAIN s.memory_map
  THEN [s EXCEPT !.memory_map[f].flags = @ \ {flag}]
  ELSE s

\* FreeList::push, run without contention: one pass of the loop.
\* count is a usize; it is kept as the signed residue, so that a decrement
\* of 0 gives -1 (all ones) and is_empty still tests for 0.
\* A block outside physical memory is not backed by the direct map: the
\* write of its next pointer faults and the kernel stops.  A walk of
\* remove_from_free_list that never ends stops the allocator as well.
push(s, order, block) ==
  IF block \notin DOMAIN s.mem THEN [s EXCEPT !.stopped = TRUE]
  ELSE [s EXCEPT !.mem[block] = s.head[order],
                 !.head[order] = block,
                 !.count[order] = @ + 1]

\* pop that returns the head without unlinking it.
pop_keeps_head(s, order) ==
  LET h == s.head[order]
  IN IF h = NULL THEN [s |-> s, block |-> NULL]
     ELSE [s |-> [s EXCEPT !.count[order] = @ - 1], block |-> h]

\* FreeList::pop: the block popped (NULL when the list is empty) and the
\* state after it.
pop(s, order) ==
  LET h == s.head[order]
  IN IF h = NULL THEN [s |-> s, block |-> NULL]
     ELSE [s |-> [s EXCEPT !.head[order] = s.mem[h],
                           !.count[order] = @ - 1],
           block |-> h]

is_empty(s, order) == s.count[order] = 0

\* The mutant of find_free_order that returns the highest non-empty order.
find_free_order_highest(s, min_order) ==
  LET cand == {o \in min_order..MAX_ORDER : ~is_empty(s, o)}
  IN IF cand = {} THEN -1 ELSE Max(cand)
\* find_free_order: the lowest non-empty order >= min_order, or -1.
find_free_order(s, min_order) ==
  LET cand == {o \in min_order..MAX_ORDER : ~is_empty(s, o)}
  IN IF cand = {} THEN -1 ELSE Min(cand)

buddy_address(addr, order) == XorBit(addr, BlockSize(order))

\* is_buddy_free with the test of the Allocated flag inverted.
is_buddy_free_allocated(s, buddy_addr, order) ==
  LET f == frame_number(buddy_addr)
  IN /\ f \in DOMAIN s.memory_map
     /\ "Allocated" \in s.memory_map[f].flags
     /\ "Reserved" \notin s.memory_map[f].flags
     /\ s.memory_map[f].order = order
     /\ s.memory_map[f].order <= MAX_ORDER

is_buddy_free(s, buddy_addr, order) ==
  LET f == frame_number(buddy_addr)
  IN /\ f \in DOMAIN s.memory_map
     /\ "Allocated" \notin s.memory_map[f].flags
     /\ "Reserved" \notin s.memory_map[f].flags
     /\ s.memory_map[f].order = order
     /\ s.memory_map[f].order <= MAX_ORDER

\* add_to_free_list that does not record the order in the leading frame.
add_to_free_list_unmarked(s, addr, order) ==
  push(s, order, phys_to_ptr(addr))

add_to_free_list(s, addr, order) ==
  push(set_order(s, frame_number(addr), order), order, phys_to_ptr(addr))

\* The inner walk of remove_from_free_list.  A walk of more steps than
\* there are blocks is on a cycle that does not hold the target: the loop
\* of the code never ends.
RECURSIVE remove_walk(_, _, _, _, _)
remove_walk(s, order, target, prev, fuel) ==
  LET current == s.mem[prev]
  IN IF current = NULL THEN s
     ELSE IF current = target
          THEN [s EXCEPT !.mem[prev] = s.mem[current],
                         !.count[order] = @ - 1]
          ELSE IF fuel = 0 THEN [s EXCEPT !.stopped = TRUE]
               ELSE remove_walk(s, order, target, current, fuel - 1)

remove_from_free_list(s, addr, order) ==
  LET target == phys_to_ptr(addr)
      h == s.head[order]
  IN IF h = NULL THEN s
     ELSE IF h = target
          THEN [s EXCEPT !.head[order] = s.mem[h],
                         !.count[order] = @ - 1]
          ELSE remove_walk(s, order, target, h, Cardinality(DOMAIN s.mem))

\* split_block: for order = from_order - 1 down to to_order, the upper
\* half goes to free list order.
RECURSIVE split_from(_, _, _, _)
split_from(s, addr, order, to_order) ==
  IF order < to_order THEN s
  ELSE split_from(add_to_free_list(s, addr + BlockSize(order), order),
                  addr, order - 1, to_order)
\* The mutant of split_block that keeps the buddy of the lowest order.
split_block_keeps_last(s, addr, from_order, to_order) ==
  split_from(s, addr, from_order - 1, to_order + 1)
split_block(s, addr, from_order, to_order) ==
  split_from(s, addr, from_order - 1, to_order)

\* The merge loop of deallocate: the state, address and order it ends with.
RECURSIVE coalesce(_, _, _)
coalesce(s, current_addr, current_order) ==
  IF current_order >= MAX_ORDER \/ s.stopped
  THEN [s |-> s, addr |-> current_addr, order |-> current_order]
  ELSE LET buddy_addr == buddy_address(current_addr, current_order)
       IN IF ~is_buddy_free(s, buddy_addr, current_order)
          THEN [s |-> s, addr |-> current_addr, order |-> current_order]
          ELSE coalesce(remove_from_free_list(s, buddy_addr, current_order),
                        Min({current_addr, buddy_addr}),
                        current_order + 1)

deallocate(s, base, order) ==
  IF order > MAX_ORDER THEN s
  ELSE LET f == frame_number(base)
           s1 == set_order(clear_flag(s, f, "Allocated"), f, order)
           c == coalesce(s1, base, order)
       IN IF c.s.stopped THEN c.s
          ELSE add_to_free_list(c.s, c.addr, c.order)

\* allocate: the state after the call and its result.
Err(s, e) == [s |-> s, ok |-> FALSE, addr |-> 0, err |-> e]
Ok(s, a) == [s |-> s, ok |-> TRUE, addr |-> a, err |-> "None"]

allocate(s, order) ==
  IF order > MAX_ORDER THEN Err(s, "OrderTooLarge")
  ELSE LET alloc_order == find_free_order(s, order)
       IN IF alloc_order < 0 THEN Err(s, "OutOfMemory")
          ELSE LET p == pop(s, alloc_order)
               IN IF p.block = NULL THEN Err(s, "OutOfMemory")
                  ELSE LET addr == block_to_address(p.block)
                           s1 == split_block(p.s, addr, alloc_order, order)
                           f == frame_number(addr)
                           s2 == set_order(set_flag(s1, f, "Allocated"),
                                           f, order)
                       IN Ok(s2, addr)

\* The loop of allocate_aligned that gives back the upper buddies.
RECURSIVE release_upper(_, _, _, _)
release_upper(s, addr, split_order, align_order) ==
  IF split_order >= align_order \/ s.stopped THEN s
  ELSE release_upper(deallocate(s, addr + BlockSize(split_order), split_order),
                     addr, split_order + 1, align_order)

\* allocate_aligned without the test of align_order against order.
allocate_aligned_unchecked(s, order, align_order) ==
  IF order > MAX_ORDER THEN Err(s, "OrderTooLarge")
  ELSE LET a == allocate(s, align_order)
       IN IF ~a.ok THEN a
          ELSE IF align_order > order
               THEN LET s1 == release_upper(a.s, a.addr, order, align_order)
                    IN Ok(set_order(s1, frame_number(a.addr), order), a.addr)
               ELSE a

allocate_aligned(s, order, align_order) ==
  IF order > MAX_ORDER THEN Err(s, "OrderTooLarge")
  ELSE IF align_order < order THEN Err(s, "InvalidAlignment")
  ELSE LET a == allocate(s, align_order)
       IN IF ~a.ok THEN a
          ELSE IF align_order > order
               THEN LET s1 == release_upper(a.s, a.addr, order, align_order)
                    IN Ok(set_order(s1, frame_number(a.addr), order), a.addr)
               ELSE a

free_blocks_at_order(s, order) == IF order > MAX_ORDER THEN 0 ELSE s.count[order]

RECURSIVE SumCount(_, _)
SumCount(s, order) ==
  IF order > MAX_ORDER THEN 0
  ELSE s.count[order] * (2 ^ order) + SumCount(s, order + 1)
\* The mutant of free_frames whose loop over the orders ends one order early.
free_frames_skips_top(s) == SumCount(s, 0) - SumCount(s, MAX_ORDER)
free_frames(s) == SumCount(s, 0)

(***************************************************************************)
(* init_pmm: the deallocate calls that seed the allocator, in order.       *)
(***************************************************************************)
AlignUp(addr) ==
  IF addr % PAGE_SIZE # 0
  THEN ((addr + PAGE_SIZE - 1) \div PAGE_SIZE) * PAGE_SIZE
  ELSE addr

\* Order MAX_ORDER while a block fits, then orders MAX_ORDER - 1 .. 0.
RECURSIVE RegionCalls(_, _, _)
RegionCalls(addr, end, order) ==
  IF order < 0 THEN << >>
  ELSE IF addr + BlockSize(order) <= end
       THEN <<[addr |-> addr, order |-> order]>>
            \o RegionCalls(addr + BlockSize(order), end, order)
       ELSE RegionCalls(addr, end, order - 1)

RECURSIVE SeedCallsFrom(_, _)
SeedCallsFrom(bm, i) ==
  IF i > Len(bm) THEN << >>
  ELSE (IF bm[i].usable
        THEN RegionCalls(AlignUp(bm[i].base), RegionEnd(bm[i]), MAX_ORDER)
        ELSE << >>) \o SeedCallsFrom(bm, i + 1)
init_pmm(bm) == SeedCallsFrom(bm, 1)

Seeded == seed_pos > Len(init_pmm(boot_map))

(***************************************************************************)
(* The block allocator of early boot (crates/pmm/src/block_allocator.rs):  *)
(* two arrays of regions, memory and reserved, each a sequence of          *)
(* MemoryRegion values.  Array indices of the code are 0-based; entry i of *)
(* the code is arr[i + 1] here.                                            *)
(***************************************************************************)
MAX_REGIONS == 128
\* usize::MAX, written as its residue modulo 2^64 in the signed range.
USIZE_MAX == -1

RECURSIVE BitAnd(_, _)
BitAnd(a, b) ==
  IF a = 0 \/ b = 0 THEN 0
  ELSE (a % 2) * (b % 2) + 2 * BitAnd(a \div 2, b \div 2)

\* x & !(m)
AndNot(x, m) == x - BitAnd(x, m)
\* x + y of two usize values leaves the range of usize.
Overflows(x, y) == x < 0 /\ x + y >= 0

MemoryRegion(base, size) == [base |-> base, size |-> size]
overlaps(a, b) == a.base < RegionEnd(b) /\ b.base < RegionEnd(a)
merge(a, b) ==
  LET base == IF a.base < b.base THEN a.base ELSE b.base
      end == IF RegionEnd(a) > RegionEnd(b) THEN RegionEnd(a) ELSE RegionEnd(b)
  IN MemoryRegion(base, end - base)

is_full(arr) == Len(arr) >= MAX_REGIONS
RaOk(arr) == [arr |-> arr, err |-> "None"]
RaErr(arr, e) == [arr |-> arr, err |-> e]

insert(arr, index, region) ==
  IF is_full(arr) THEN RaErr(arr, "RegionsFull")
  ELSE IF index > Len(arr) THEN RaErr(arr, "RegionsFull")
  ELSE RaOk(SubSeq(arr, 1, index) \o <<region>>
            \o SubSeq(arr, index + 1, Len(arr)))

remove(arr, index) ==
  IF index >= Len(arr) THEN arr
  ELSE SubSeq(arr, 1, index) \o SubSeq(arr, index + 2, Len(arr))

\* The loop of RegionArray::add over the existing regions from index i on;
\* -1 is None.  The iterations that only continue (the new region comes
\* after the existing one) change nothing, so the loop resumes at the first
\* existing region that does not end before the new one begins.
RECURSIVE add_scan(_, _, _)
add_scan(arr, i, st) ==
  LET rest == {j \in i..(Len(arr) - 1) :
                 ~(st.merged.base > RegionEnd(arr[j + 1]))}
  IN IF rest = {} THEN st
     ELSE LET k == Min(rest)
              existing == arr[k + 1]
          IN IF RegionEnd(st.merged) < existing.base
             THEN [st EXCEPT !.insert_pos = IF @ = Len(arr) THEN k ELSE @]
             ELSE add_scan(arr, k + 1,
                    [st EXCEPT !.merged = merge(@, existing),
                               !.merge_start = IF @ = -1 THEN k ELSE @,
                               !.merge_end = k])

RECURSIVE remove_times(_, _, _)
remove_times(arr, start, n) ==
  IF n = 0 THEN arr ELSE remove_times(remove(arr, start), start, n - 1)

RegionArray_add(arr, region) ==
  IF region.size = 0 THEN RaOk(arr)
  ELSE LET st == add_scan(arr, 0,
                   [insert_pos |-> Len(arr), merged |-> region,
                    merge_start |-> -1, merge_end |-> -1])
       IN IF st.merge_start # -1
          THEN insert(remove_times(arr, st.merge_start,
                                   st.merge_end - st.merge_start + 1),
                      st.merge_start, st.merged)
          ELSE insert(arr, st.insert_pos, st.merged)

\* The while loop of RegionArray::subtract from index i on.  The
\* iterations over regions that do not overlap only advance i, so the loop
\* resumes at the first region that overlaps.
RECURSIVE subtract_loop(_, _, _)
subtract_loop(arr, region, i) ==
  LET rest == {j \in i..(Len(arr) - 1) : overlaps(arr[j + 1], region)}
  IN IF rest = {} THEN RaOk(arr)
     ELSE LET k == Min(rest)
              existing == arr[k + 1]
              has_before == existing.base < region.base
              r1 == IF has_before
                    THEN insert(remove(arr, k), k,
                           MemoryRegion(existing.base,
                                        region.base - existing.base))
                    ELSE RaOk(remove(arr, k))
              i1 == IF has_before THEN k + 1 ELSE k
              has_after == RegionEnd(existing) > RegionEnd(region)
              r2 == IF has_after
                    THEN insert(r1.arr, i1,
                           MemoryRegion(RegionEnd(region),
                             RegionEnd(existing) - RegionEnd(region)))
                    ELSE r1
              i2 == IF has_after THEN i1 + 1 ELSE i1
          IN IF r1.err # "None" THEN r1
             ELSE IF r2.err # "None" THEN r2
             ELSE subtract_loop(r2.arr, region, i2)

RegionArray_subtract(arr, region) ==
  IF region.size = 0 THEN RaOk(arr) ELSE subtract_loop(arr, region, 0)

\* The sum of the sizes of entries lo..hi, halving the range.
RECURSIVE total_size_from(_, _, _)
total_size_from(arr, lo, hi) ==
  IF lo > hi THEN 0
  ELSE IF lo = hi THEN arr[lo].size
  ELSE total_size_from(arr, lo, (lo + hi) \div 2)
       + total_size_from(arr, ((lo + hi) \div 2) + 1, hi)
total_size(arr) == total_size_from(arr, 1, Len(arr))

\* The allocator as one value, and the result of one of its calls.
BA == [memory |-> memory, reserved |-> reserved]
BlockAllocator_new == [memory |-> << >>, reserved |-> << >>]
BaResult(b, result, addr) == [b |-> b, result |-> result, addr |-> addr]
BaFrom(b, field, r) ==
  BaResult([b EXCEPT ![field] = r.arr],
           IF r.err = "None" THEN "Ok" ELSE r.err, 0)

\* The mutant of add that rounds the base down.
BlockAllocator_add_rounds_down(b, base, size) ==
  LET aligned_base == AndNot(base, PAGE_SIZE - 1)
      end == base + size
      aligned_size == AndNot(end - aligned_base, PAGE_SIZE - 1)
  IN IF end <= aligned_base THEN BaResult(b, "Ok", 0)
     ELSE IF aligned_size = 0 THEN BaResult(b, "Ok", 0)
     ELSE BaFrom(b, "memory",
            RegionArray_add(b.memory, MemoryRegion(aligned_base, aligned_size)))
BlockAllocator_add(b, base, size) ==
  LET aligned_base == AndNot(base + PAGE_SIZE - 1, PAGE_SIZE - 1)
      end == base + size
      aligned_size == AndNot(end - aligned_base, PAGE_SIZE - 1)
  IN IF end <= aligned_base THEN BaResult(b, "Ok", 0)
     ELSE IF aligned_size = 0 THEN BaResult(b, "Ok", 0)
     ELSE BaFrom(b, "memory",
            RegionArray_add(b.memory, MemoryRegion(aligned_base, aligned_size)))

BlockAllocator_reserve(b, base, size) ==
  LET aligned_base == AndNot(base, PAGE_SIZE - 1)
      end == base + size
      aligned_end == AndNot(end + PAGE_SIZE - 1, PAGE_SIZE - 1)
      aligned_size == aligned_end - aligned_base
  IN IF size = 0 THEN BaResult(b, "Ok", 0)
     ELSE BaFrom(b, "reserved",
            RegionArray_add(b.reserved,
                            MemoryRegion(aligned_base, aligned_size)))

\* Index (0-based) of the first reserved region the candidate overlaps, or -1.
first_overlap(res, candidate_region) ==
  LET hits == {i \in 0..(Len(res) - 1) : overlaps(candidate_region, res[i + 1])}
  IN IF hits = {} THEN -1 ELSE Min(hits)

\* The while loop of allocate_raw inside one memory region: the address of
\* the candidate found, or -1.
RECURSIVE scan_region(_, _, _, _, _)
scan_region(res, current, end, aligned_size, align) ==
  IF ~(current + aligned_size <= end) THEN -1
  ELSE LET aligned_current == AndNot(current + align - 1, align - 1)
           hit == first_overlap(res, MemoryRegion(aligned_current, aligned_size))
       IN IF aligned_current + aligned_size > end THEN -1
          ELSE IF hit = -1 THEN aligned_current
          ELSE scan_region(res, RegionEnd(res[hit + 1]), end, aligned_size,
                           align)

\* The for loop of allocate_raw over the memory regions.
RECURSIVE scan_memory(_, _, _, _)
scan_memory(b, m, aligned_size, align) ==
  IF m > Len(b.memory) THEN -1
  ELSE LET found == scan_region(b.reserved, b.memory[m].base,
                                RegionEnd(b.memory[m]), aligned_size, align)
       IN IF found # -1 THEN found
          ELSE scan_memory(b, m + 1, aligned_size, align)

\* checks is the build's overflow-checks setting: size + PAGE_SIZE - 1
\* panics when it is on and wraps when it is off.
allocate_raw(b, size, align, checks) ==
  IF size = 0 THEN BaResult(b, "OutOfMemory", 0)
  ELSE IF align = 0 \/ BitAnd(align, align - 1) # 0
  THEN BaResult(b, "InvalidAlignment", 0)
  ELSE IF checks /\ Overflows(size, PAGE_SIZE - 1)
  THEN BaResult(b, "Panic", 0)
  ELSE LET aligned_size == AndNot(size + PAGE_SIZE - 1, PAGE_SIZE - 1)
           found == scan_memory(b, 1, aligned_size, align)
           r == RegionArray_add(b.reserved, MemoryRegion(found, aligned_size))
       IN IF found = -1 THEN BaResult(b, "OutOfMemory", 0)
          ELSE IF r.err # "None" THEN BaResult(b, r.err, 0)
          ELSE BaResult([b EXCEPT !.reserved = r.arr], "Ok",
                        phys_to_virt(found))

BlockAllocator_free(b, base, size, checks) ==
  LET phys_base == virt_to_phys(base)
      aligned_base == AndNot(phys_base, PAGE_SIZE - 1)
      end == phys_base + size
      aligned_end == AndNot(end + PAGE_SIZE - 1, PAGE_SIZE - 1)
      aligned_size == aligned_end - aligned_base
  IN IF size = 0 THEN BaResult(b, "Ok", 0)
     ELSE IF checks /\ (Overflows(size, phys_base)
                        \/ Overflows(end, PAGE_SIZE - 1))
     THEN BaResult(b, "Panic", 0)
     ELSE BaFrom(b, "reserved",
            RegionArray_subtract(b.reserved,
                                 MemoryRegion(aligned_base, aligned_size)))

total_memory(b) == total_size(b.memory)
reserved_memory(b) == total_size(b.reserved)
\* saturating_sub
available_memory(b) ==
  IF total_memory(b) >= reserved_memory(b)
  THEN total_memory(b) - reserved_memory(b) ELSE 0

(***************************************************************************)
(* Page tables (crates/pmm/src/page_directory.rs) on the software-emulated *)
(* architecture (crates/pmm/src/arch/software): 16-bit addresses, three    *)
(* levels of tables of 16 entries, 16-byte pages.  A page table in         *)
(* emulated memory is named by its host address; 0 names the root table of *)
(* the directory.                                                          *)
(***************************************************************************)
PAGE_TABLE_LEVELS == 3
ENTRY_COUNT == 16
\* size_of::<PageTable>(): one Box pointer of the host.
PAGE_TABLE_SIZE == 8
ADDRESS_MASK == 1048560
FLAGS_MASK == 15
PRESENT == 1

page_index(address, level) == (address \div (2 ^ (4 + level * 4))) % 16

\* PageEntry::canonicalize sets every bit above bit 15 when bit 15 is set;
\* of those, ADDRESS_MASK keeps bits 16..19.
canonicalize(addr) ==
  LET addr_16 == addr % 65536
  IN IF BitAnd(addr_16, 32768) # 0 THEN addr_16 + 983040 ELSE addr_16

PageEntry_new(address, flags) ==
  BitAnd(canonicalize(address), ADDRESS_MASK) + BitAnd(flags, FLAGS_MASK)

is_present(entry) == BitAnd(BitAnd(entry, FLAGS_MASK), PRESENT) # 0
\* PageEntry::address; -1 is None.
PageEntry_address(entry) ==
  IF is_present(entry) THEN BitAnd(BitAnd(entry, ADDRESS_MASK), 65535) ELSE -1
set_present(flags) == flags + PRESENT - BitAnd(flags, PRESENT)
PageTable_new == [i \in 0..(ENTRY_COUNT - 1) |-> 0]

\* EmulatedMemory
translate(phys) == HostBase + phys
EmulatedMemory_ptr_to_phys(ptr) == ptr - HostBase
\* EmulatedMemory::allocate: the physical address, or -1 for None.
EmulatedMemory_allocate(next, size, align) ==
  LET aligned == AndNot(next + align - 1, align - 1)
      end == aligned + size
  IN IF end > EmulatedSize THEN [phys |-> -1, next |-> next]
     ELSE [phys |-> aligned, next |-> end]

\* The page directory and the emulated memory as one value.
PD == [root |-> root, tables |-> tables, next_alloc |-> next_alloc]
PageDirectory_new ==
  [root |-> PageTable_new, tables |-> << >>, next_alloc |-> 0]

entry_of(pd, table, index) ==
  IF table = 0 THEN pd.root[index] ELSE pd.tables[table][index]
set_entry(pd, table, index, entry) ==
  IF table = 0 THEN [pd EXCEPT !.root[index] = entry]
  ELSE [pd EXCEPT !.tables[table][index] = entry]

\* alloc_page_table: ptr is the host address of the new table, 0 when the
\* allocation fails (expect panics).
\* The mutant of alloc_page_table whose new table is not zeroed: its last
\* entry is present and holds the table's own address.
alloc_page_table_dirty(pd) ==
  LET a == EmulatedMemory_allocate(pd.next_alloc, PAGE_TABLE_SIZE, PAGE_SIZE)
      ptr == translate(a.phys)
  IN IF a.phys = -1 THEN [pd |-> pd, ptr |-> 0]
     ELSE [pd |-> [pd EXCEPT !.next_alloc = a.next,
                             !.tables = [t \in DOMAIN pd.tables \cup {ptr} |->
                                           IF t = ptr
                                           THEN [i \in 0..(ENTRY_COUNT - 1) |->
                                                   IF i = ENTRY_COUNT - 1
                                                   THEN PageEntry_new(a.phys, PRESENT)
                                                   ELSE 0]
                                           ELSE pd.tables[t]]],
           ptr |-> ptr]
alloc_page_table(pd) ==
  LET a == EmulatedMemory_allocate(pd.next_alloc, PAGE_TABLE_SIZE, PAGE_SIZE)
      ptr == translate(a.phys)
  IN IF a.phys = -1 THEN [pd |-> pd, ptr |-> 0]
     ELSE [pd |-> [pd EXCEPT !.next_alloc = a.next,
                             !.tables = [t \in DOMAIN pd.tables \cup {ptr} |->
                                           IF t = ptr THEN PageTable_new
                                           ELSE pd.tables[t]]],
           ptr |-> ptr]

\* walk: the table and index of the level-0 entry, table -1 when an
\* intermediate table is missing.
RECURSIVE walk_from(_, _, _, _)
walk_from(pd, virt, table, level) ==
  IF level = 0 THEN [table |-> table, index |-> page_index(virt, 0)]
  ELSE LET entry == entry_of(pd, table, page_index(virt, level))
       IN IF ~is_present(entry) THEN [table |-> -1, index |-> 0]
          ELSE walk_from(pd, virt, translate(PageEntry_address(entry)),
                         level - 1)
walk(pd, virt) == walk_from(pd, virt, 0, PAGE_TABLE_LEVELS - 1)

\* walk_or_create: as walk, creating the missing tables; table -1 when
\* alloc_page_table panics.
RECURSIVE walk_or_create_from(_, _, _, _)
walk_or_create_from(pd, virt, table, level) ==
  IF level = 0
  THEN [pd |-> pd, table |-> table, index |-> page_index(virt, 0)]
  ELSE LET index == page_index(virt, level)
           entry == entry_of(pd, table, index)
           a == alloc_page_table(pd)
           new_table_phys == EmulatedMemory_ptr_to_phys(a.ptr)
           pd1 == IF is_present(entry) THEN pd
                  ELSE set_entry(a.pd, table, index,
                                 PageEntry_new(new_table_phys, set_present(0)))
       IN IF ~is_present(entry) /\ a.ptr = 0
          THEN [pd |-> pd, table |-> -1, index |-> 0]
          ELSE walk_or_create_from(pd1, virt,
                 translate(PageEntry_address(entry_of(pd1, table, index))),
                 level - 1)
\* The mutant of walk_or_create that starts from an empty root table.
walk_or_create_fresh_root(pd, virt) ==
  walk_or_create_from([pd EXCEPT !.root = PageTable_new], virt, 0,
                      PAGE_TABLE_LEVELS - 1)
walk_or_create(pd, virt) ==
  walk_or_create_from(pd, virt, 0, PAGE_TABLE_LEVELS - 1)

PdResult(pd, result, phys) == [pd |-> pd, result |-> result, phys |-> phys]

\* The mutant of map that keeps the flags it is given.
map_keeps_flags(pd, virt, phys, flags) ==
  LET w == walk_or_create(pd, virt)
  IN IF virt % PAGE_SIZE # 0 \/ phys % PAGE_SIZE # 0
     THEN PdResult(pd, "Panic", 0)
     ELSE IF w.table = -1 THEN PdResult(w.pd, "Panic", 0)
     ELSE PdResult(set_entry(w.pd, w.table, w.index,
                             PageEntry_new(phys, flags)), "Ok", 0)
map(pd, virt, phys, flags) ==
  LET w == walk_or_create(pd, virt)
  IN IF virt % PAGE_SIZE # 0 \/ phys % PAGE_SIZE # 0
     THEN PdResult(pd, "Panic", 0)
     ELSE IF w.table = -1 THEN PdResult(w.pd, "Panic", 0)
     ELSE PdResult(set_entry(w.pd, w.table, w.index,
                             PageEntry_new(phys, set_present(flags))),
                   "Ok", 0)

\* The mutant of unmap that clears the intermediate entry of the root table
\* when the address is not mapped.
unmap_clears_root(pd, virt) ==
  LET w == walk(pd, virt)
      found == w.table # -1
      phys == IF found THEN PageEntry_address(entry_of(pd, w.table, w.index))
              ELSE -1
  IN IF virt % PAGE_SIZE # 0 THEN PdResult(pd, "Panic", 0)
     ELSE IF phys = -1
     THEN PdResult(set_entry(pd, 0, page_index(virt, PAGE_TABLE_LEVELS - 1),
                             0), "None", 0)
     ELSE PdResult(set_entry(pd, w.table, w.index, 0), "Some", phys)
unmap(pd, virt) ==
  LET w == walk(pd, virt)
      found == w.table # -1
      phys == IF found THEN PageEntry_address(entry_of(pd, w.table, w.index))
              ELSE -1
  IN IF virt % PAGE_SIZE # 0 THEN PdResult(pd, "Panic", 0)
     ELSE IF phys = -1 THEN PdResult(pd, "None", 0)
     ELSE PdResult(set_entry(pd, w.table, w.index, 0), "Some", phys)

PdCall(op, virt, phys, flags, result, ret) ==
  [op |-> op, virt |-> virt, phys |-> phys, flags |-> flags,
   result |-> result, ret |-> ret]

\* PageDirectory::new over a fresh emulated memory.
PagingInit ==
  /\ root = PageDirectory_new.root
  /\ tables = PageDirectory_new.tables
  /\ next_alloc = PageDirectory_new.next_alloc
  /\ pd_last = PdCall("new", 0, 0, 0, "Ok", 0)
  /\ pd_after_map = 0
PagingIdle == PagingInit

(***************************************************************************)
(* The state machine.                                                      *)
(***************************************************************************)
\* Boot maps of Spec: one usable region from address 0, one usable region
\* whose base is page-aligned only, two usable regions around a non-usable
\* one, and two usable regions around a hole no region describes.
BootMaps ==
  { <<Usable(0, MemFrames)>>,
    <<Usable(1, MemFrames - 1)>>,
    <<Usable(0, 2), NonUsable(2, 1), Usable(3, MemFrames - 3)>>,
    <<Usable(1, 1), Usable(3, MemFrames - 3)>> }

\* Orders passed to allocate and allocate_aligned: the small ones, the
\* largest valid one and the first invalid one.
ReqOrders == (0..MaxReqOrder) \cup {MAX_ORDER + 1}

Call(op, order, align, addr, result) ==
  [op |-> op, order |-> order, align |-> align, addr |-> addr,
   result |-> result]
ResultOf(r) == IF r.ok THEN "Ok" ELSE r.err

Install(s) ==
  /\ memory_map' = s.memory_map
  /\ head' = s.head
  /\ count' = s.count
  /\ mem' = s.mem
  /\ stopped' = s.stopped

\* The frames of a block of 2^order frames at addr.
BlockFrames(addr, order) ==
  frame_number(addr)..(frame_number(addr) + (2 ^ order) - 1)

Live(addr, order) ==
  [addr |-> addr, order |-> order,
   dup |-> Cardinality({b \in live : b.addr = addr})]

MaxLive == MemFrames

PmmInit(maps, ph) ==
  /\ boot_map \in maps
  /\ stack = << >>
  /\ phase = ph
  /\ misuse = 0
  /\ LET s == PhysicalMemoryManager_new(boot_map)
     IN /\ memory_map = s.memory_map
        /\ head = s.head
        /\ count = s.count
        /\ mem = s.mem
        /\ stopped = s.stopped
        /\ total_frames = allocated_frame_count(s.memory_map)
  /\ seed_pos = 1
  /\ live = {}
  /\ last = Call("new", 0, 0, 0, "Ok")

\* No boot map yet: the allocator and the memory map are not built.
PmmIdle == PmmInit({<< >>}, "idle")

BaCall(op, base, size, align, result, addr) ==
  [op |-> op, base |-> base, size |-> size, align |-> align,
   result |-> result, addr |-> addr]

\* BlockAllocator::new, in a build with or without overflow checks.
BlockInit(builds) ==
  /\ memory = BlockAllocator_new.memory
  /\ reserved = BlockAllocator_new.reserved
  /\ allocs = {}
  /\ ba_last = BaCall("new", 0, 0, 0, "Ok", 0)
  /\ overflow_checks \in builds
BlockIdle == BlockInit({TRUE})

(***************************************************************************)
(* The address translator.  A usize is written as the representative of    *)
(* its residue modulo 2^64 that lies nearest to 0, so usize::MAX is -1 and *)
(* wrapping addition and subtraction are + and - on representatives.       *)
(***************************************************************************)
Hardware(direct_map_offset) ==
  [kind |-> "Hardware", direct_map_offset |-> direct_map_offset, size |-> 0]
Emulated(size) ==
  [kind |-> "Emulated", direct_map_offset |-> 0, size |-> size]
NoTranslator == [kind |-> "None", direct_map_offset |-> 0, size |-> 0]

Value(v) == [ok |-> TRUE, value |-> v]
Panics == [ok |-> FALSE, value |-> 0]

\* AddressTranslator::phys_to_virt; EmulatedMemory::translate asserts
\* phys < memory.len().
AddressTranslator_phys_to_virt(t, phys) ==
  IF t.kind = "Hardware" THEN Value(phys + t.direct_map_offset)
  ELSE IF phys >= 0 /\ phys < t.size THEN Value(translate(phys))
  ELSE Panics

\* The mutant of virt_to_phys that adds the offset of the direct map.
AddressTranslator_virt_to_phys_adds(t, virt) ==
  IF t.kind = "Hardware" THEN Value(virt + t.direct_map_offset)
  ELSE LET offset == EmulatedMemory_ptr_to_phys(virt)
       IN IF offset >= 0 /\ offset < t.size THEN Value(offset) ELSE Panics
\* AddressTranslator::virt_to_phys; EmulatedMemory::ptr_to_phys asserts
\* 0 <= offset < memory.len().
AddressTranslator_virt_to_phys(t, virt) ==
  IF t.kind = "Hardware" THEN Value(virt - t.direct_map_offset)
  ELSE LET offset == EmulatedMemory_ptr_to_phys(virt)
       IN IF offset >= 0 /\ offset < t.size THEN Value(offset) ELSE Panics

\* FrameNumber::start: PhysicalAddress::new panics on an address that is not
\* valid for the architecture.
FrameNumber_start(fn) ==
  LET addr == fn * PAGE_SIZE
  IN IF addr >= 0 /\ validate_physical(addr) THEN Value(addr) ELSE Panics

Executors == 1..MaxExecutors
\* ADDRESS_TRANSLATOR is one static in the kernel and a thread_local under
\* test and software-emulation: cell 0, or one cell for each executor.
Cells == 0..MaxExecutors
CellOf(p) == IF arch = "x86_64" THEN 0 ELSE p

AtCall(op, p, t, result, a, b, c) ==
  [op |-> op, exec |-> p, t |-> t, result |-> result, a |-> a, b |-> b,
   c |-> c]

TranslatorInit ==
  /\ once_status = [c \in Cells |-> "Incomplete"]
  /\ once_data = [c \in Cells |-> NoTranslator]
  /\ at_pc = [p \in Executors |-> "idle"]
  /\ at_arg = [p \in Executors |-> NoTranslator]
  /\ at_ok = [c \in Cells |-> 0]
  /\ at_last = AtCall("none", 0, NoTranslator, "Ok", 0, 0, 0)

(***************************************************************************)
(* The kernel allocator (KERNEL_ALLOCATOR, the #[global_allocator]).       *)
(***************************************************************************)
RECURSIVE next_power_of_two(_, _)
\* usize::next_power_of_two: the smallest power of two >= n, from p up.
next_power_of_two(n, p) == IF p >= n THEN p ELSE next_power_of_two(n, 2 * p)
RECURSIVE trailing_zeros(_)
trailing_zeros(n) == IF n % 2 = 1 THEN 0 ELSE 1 + trailing_zeros(n \div 2)

\* The mutant of the order computation that rounds the page count down.
layout_order_rounds_down(size, align) ==
  LET sz == IF size > align THEN size ELSE align
      pages == IF sz < 4096 THEN 1 ELSE sz \div 4096
  IN trailing_zeros(next_power_of_two(pages, 1))
\* The order alloc and dealloc compute for a layout.
layout_order(size, align) ==
  LET sz == IF size > align THEN size ELSE align
      pages == (sz + 4095) \div 4096
  IN trailing_zeros(next_power_of_two(pages, 1))

\* <KernelAllocator as GlobalAlloc>::alloc in the None and PMM states: the
\* allocator after the call and the pointer, 0 for null.
KernelAllocator_alloc(mode, s, size, align) ==
  IF mode = "None" THEN [s |-> s, ptr |-> 0]
  ELSE LET r == allocate(s, layout_order(size, align))
       IN [s |-> r.s, ptr |-> IF r.ok THEN phys_to_virt(r.addr) ELSE 0]

\* <KernelAllocator as GlobalAlloc>::dealloc in the None and PMM states.
KernelAllocator_dealloc(mode, s, ptr, size, align) ==
  IF ptr = 0 THEN s
  ELSE IF mode = "None" THEN s
  ELSE deallocate(s, virt_to_phys(ptr), layout_order(size, align))

KaCall(op, size, align, ptr, before, after, at_alloc) ==
  [op |-> op, mode |-> ka_mode, size |-> size, align |-> align, ptr |-> ptr,
   free_before |-> before, free_after |-> after, free_at_alloc |-> at_alloc]

KernelInit ==
  /\ ka_mode = "None"
  /\ ka_live = {}
  /\ ka_last = KaCall("none", 0, 0, 0, 0, 0, -1)

\* Executors that are in no call of a free list and hold the blocks of
\* owned.
FreeListInit(owned) ==
  /\ fl_pc = [p \in Executors |-> "idle"]
  /\ fl_head = [p \in Executors |-> NULL]
  /\ fl_next = [p \in Executors |-> NULL]
  /\ fl_block = [p \in Executors |-> NULL]
  /\ fl_owned = [p \in Executors |-> IF p = 1 THEN owned ELSE {}]

\* Contexts of the kernel: a task on each of two processors and the
\* interrupt handler of processor 0.
Contexts == {"task0", "irq0", "task1"}
NoReq == [op |-> "none", ptr |-> 0, size |-> 0, align |-> 0]

\* No lock is held and nobody is inside a call.
LockInit ==
  /\ ka_locked = FALSE
  /\ ka_pc = [c \in Contexts |-> "idle"]
  /\ ka_req = [c \in Contexts |-> NoReq]
  /\ memory_locked = FALSE
  /\ reserved_locked = FALSE
  /\ ba_pc = [p \in Executors |-> "idle"]
  /\ ba_req = [p \in Executors |-> NoReq]

FfCall(op, flag, result) == [op |-> op, flag |-> flag, result |-> result]
\* FrameFlags::from_bits(initial) of a word in words.
FlagInit(words) ==
  /\ ff_bits \in words
  /\ ff_last = FfCall("from_bits", "None", FALSE)
FlagIdle == FlagInit({{}})

OtherIdle ==
  TranslatorInit /\ KernelInit /\ FreeListInit({}) /\ LockInit /\ FlagIdle

MmCall(op, n, result, found, cnt) ==
  [op |-> op, n |-> n, result |-> result, present |-> found.present,
   frame |-> found.frame, count |-> cnt]

\* MemoryMap::from_boot_map(&[]) in the build of architecture a.
MapInit(archs) ==
  /\ arch \in archs
  /\ map_regions = << >>
  /\ sections = MemoryMap_from_boot_map(<< >>).sections
  /\ mm_last = MmCall("from_boot_map", 0, "Ok", None, 0)
MapIdle == MapInit({"software"})

InitFrom(maps, ph) ==
  MapIdle /\ PmmInit(maps, ph) /\ BlockIdle /\ PagingIdle /\ OtherIdle

Init == InitFrom(BootMaps, "idle")

\* One deallocate call of init_pmm.
Seed ==
  /\ ~stopped /\ ~Seeded
  /\ LET c == init_pmm(boot_map)[seed_pos]
     IN /\ Install(deallocate(PMM, c.addr, c.order))
        /\ last' = Call("seed", c.order, c.order, c.addr, "Ok")
  /\ seed_pos' = seed_pos + 1
  /\ UNCHANGED <<boot_map, total_frames, live, client, misuse>>
  /\ UNCHANGED <<block_vars, paging_vars, map_vars, other_vars>>

AllocateCap(cap) ==
  /\ ~stopped /\ Seeded /\ phase = "idle" /\ Cardinality(live) < cap
  /\ \E order \in ReqOrders :
       LET r == allocate(PMM, order)
       IN /\ Install(r.s)
          /\ live' = IF r.ok THEN live \cup {Live(r.addr, order)} ELSE live
          /\ last' = Call("allocate", order, order, r.addr, ResultOf(r))
  /\ UNCHANGED <<boot_map, total_frames, seed_pos, client>>
  /\ UNCHANGED <<block_vars, paging_vars, map_vars, other_vars>>

Allocate == AllocateCap(MaxLive) /\ UNCHANGED misuse

AllocateAlignedCap(cap) ==
  /\ ~stopped /\ Seeded /\ phase = "idle" /\ Cardinality(live) < cap
  /\ \E order \in ReqOrders, align_order \in ReqOrders :
       LET r == allocate_aligned(PMM, order, align_order)
       IN /\ Install(r.s)
          /\ live' = IF r.ok THEN live \cup {Live(r.addr, order)} ELSE live
          /\ last' = Call("allocate_aligned", order, align_order, r.addr,
                          ResultOf(r))
  /\ UNCHANGED <<boot_map, total_frames, seed_pos, client>>
  /\ UNCHANGED <<block_vars, paging_vars, map_vars, other_vars>>

AllocateAligned == AllocateAlignedCap(MaxLive) /\ UNCHANGED misuse

\* deallocate of a live allocation at the order it was allocated with.
Release ==
  /\ ~stopped /\ Seeded
  /\ \E b \in live :
       /\ Install(deallocate(PMM, b.addr, b.order))
       /\ live' = live \ {b}
       /\ last' = Call("deallocate", b.order, b.order, b.addr, "Ok")
  /\ UNCHANGED <<boot_map, total_frames, seed_pos, client>>
  /\ UNCHANGED <<block_vars, paging_vars, map_vars, other_vars>>

Deallocate == Release /\ UNCHANGED misuse

\* deallocate with an order above MAX_ORDER, of any page of memory.
DeallocateOrderTooLarge ==
  /\ ~stopped /\ Seeded /\ phase = "idle"
  /\ \E f \in {fr \in PhysFrames(boot_map) : fr < 2} :
       /\ Install(deallocate(PMM, f * PAGE_SIZE, MAX_ORDER + 1))
       /\ last' = Call("deallocate", MAX_ORDER + 1, MAX_ORDER + 1,
                       f * PAGE_SIZE, "Ok")
  /\ UNCHANGED <<boot_map, total_frames, seed_pos, live, client, misuse>>
  /\ UNCHANGED <<block_vars, paging_vars, map_vars, other_vars>>

Next ==
  \/ Seed
  \/ Allocate
  \/ AllocateAligned
  \/ Deallocate
  \/ DeallocateOrderTooLarge

Spec == Init /\ [][Next]_vars

(***************************************************************************)
(* Reserved interior hole: usable frames [0, 100) followed by non-usable   *)
(* frames [40, 60), and a client that holds a few allocations at a time    *)
(* (and asks for an aligned one only while it holds one fewer).            *)
(***************************************************************************)
HoleMap == <<Usable(0, 100), NonUsable(40, 20)>>
HoleFrames == 40..59

InitHole == InitFrom({HoleMap}, "idle")
HoleAllocate == AllocateCap(MaxHeld) /\ UNCHANGED misuse
HoleAllocateAligned == AllocateAlignedCap(MaxHeld - 1) /\ UNCHANGED misuse

NextHole ==
  \/ Seed
  \/ HoleAllocate
  \/ HoleAllocateAligned
  \/ Deallocate
  \/ DeallocateOrderTooLarge

SpecHole == InitHole /\ [][NextHole]_vars

(***************************************************************************)
(* A non-usable region over one frame of a usable region of MemFrames      *)
(* frames, the last one or the one that leads the upper half, with the     *)
(* calls of Spec (SpecOverlap).                                            *)
(***************************************************************************)
OverlapMaps ==
  { <<Usable(0, MemFrames), NonUsable(MemFrames - 1, 1)>>,
    <<Usable(0, MemFrames), NonUsable(2, 1)>> }
InitOverlap == InitFrom(OverlapMaps, "idle")
SpecOverlap == InitOverlap /\ [][Next]_vars

(***************************************************************************)
(* Seed and drain: one usable region of two MAX_ORDER blocks at address 0; *)
(* the client allocates single frames until allocate fails, then gives     *)
(* them back in reverse order, DrainBatch calls to a step.                 *)
(***************************************************************************)
DrainFrames == 2 * (2 ^ MAX_ORDER)
DrainMap == <<Usable(0, DrainFrames)>>

InitDrain == InitFrom({DrainMap}, "fill")

\* Up to n allocate(0) calls, stopping at the first that fails.
RECURSIVE fill(_, _, _)
fill(s, held, n) ==
  IF n = 0 THEN [s |-> s, held |-> held, res |-> Ok(s, held[Len(held)])]
  ELSE LET r == allocate(s, 0)
       IN IF r.ok THEN fill(r.s, Append(held, r.addr), n - 1)
          ELSE [s |-> r.s, held |-> held, res |-> r]

\* Up to n deallocate calls of the addresses held, last one first.
RECURSIVE drain(_, _, _)
drain(s, held, n) ==
  IF n = 0 \/ Len(held) = 0 \/ s.stopped THEN [s |-> s, held |-> held]
  ELSE drain(deallocate(s, held[Len(held)], 0),
             SubSeq(held, 1, Len(held) - 1), n - 1)

DrainAllocate ==
  /\ ~stopped /\ Seeded /\ phase = "fill"
  /\ LET r == fill(PMM, stack, DrainBatch)
     IN /\ Install(r.s)
        /\ last' = Call("allocate", 0, 0, r.res.addr, ResultOf(r.res))
        /\ stack' = r.held
        /\ phase' = IF r.res.ok THEN "fill" ELSE "drain"
  /\ UNCHANGED <<boot_map, total_frames, seed_pos, live, misuse>>
  /\ UNCHANGED <<block_vars, paging_vars, map_vars, other_vars>>

DrainDeallocate ==
  /\ ~stopped /\ phase = "drain" /\ Len(stack) > 0
  /\ LET r == drain(PMM, stack, DrainBatch)
     IN /\ Install(r.s)
        /\ last' = Call("deallocate", 0, 0, stack[Len(r.held) + 1], "Ok")
        /\ stack' = r.held
        /\ phase' = IF Len(r.held) = 0 THEN "done" ELSE "drain"
  /\ UNCHANGED <<boot_map, total_frames, seed_pos, live, misuse>>
  /\ UNCHANGED <<block_vars, paging_vars, map_vars, other_vars>>

NextDrain ==
  \/ Seed
  \/ DrainAllocate
  \/ DrainDeallocate

SpecDrain == InitDrain /\ [][NextDrain]_vars

(***************************************************************************)
(* Misuse: allocate and deallocate from one usable region at address 0,    *)
(* and                                                                     *)
(* deallocate of a block of physical memory that is not a live allocation  *)
(* of that order.                                                          *)
(***************************************************************************)
InitMisuse == InitFrom({<<Usable(0, MemFrames)>>}, "idle")

\* misuse counts the calls from the first such deallocate on.
DeallocateInvalid ==
  /\ ~stopped /\ Seeded /\ phase = "idle" /\ misuse < MaxMisuse
  /\ \E f \in PhysFrames(boot_map), order \in 0..MaxReqOrder :
       /\ BlockFrames(f * PAGE_SIZE, order) \subseteq PhysFrames(boot_map)
       /\ ~\E b \in live : b.addr = f * PAGE_SIZE /\ b.order = order
       /\ Install(deallocate(PMM, f * PAGE_SIZE, order))
       /\ last' = Call("deallocate_not_live", order, order, f * PAGE_SIZE,
                       "Ok")
  /\ misuse' = misuse + 1
  /\ UNCHANGED <<boot_map, total_frames, seed_pos, live, stack, phase>>
  /\ UNCHANGED <<block_vars, paging_vars, map_vars, other_vars>>

AfterMisuse == misuse' = IF misuse = 0 THEN 0 ELSE misuse + 1
MisuseAllocate ==
  misuse < MaxMisuse /\ AllocateCap(MaxHeld) /\ AfterMisuse
MisuseDeallocate ==
  misuse < MaxMisuse /\ Release /\ AfterMisuse

NextMisuse ==
  \/ Seed
  \/ MisuseAllocate
  \/ MisuseDeallocate
  \/ DeallocateInvalid

SpecMisuse == InitMisuse /\ [][NextMisuse]_vars

(***************************************************************************)
(* SpecBlock: a client of the block allocator that adds and reserves       *)
(* ranges, allocates and frees.  A panic ends the run.                     *)
(***************************************************************************)
BlockBytes == BlockPages * PAGE_SIZE
\* <<base, size>> passed to add: all pages, a range with unaligned base and
\* end, a range shorter than a page.
AddArgs == { <<0, BlockBytes>>, <<8, BlockBytes - 24>>, <<PAGE_SIZE, 8>> }
\* <<base, size>> passed to reserve: single pages inside the address space,
\* an unaligned range, an empty range, a page outside every added region.
ReserveArgs ==
  { <<0, PAGE_SIZE>>, <<PAGE_SIZE + 8, 8>>, <<2 * PAGE_SIZE, PAGE_SIZE>>,
    <<0, 0>>, <<BlockBytes, PAGE_SIZE>> }
AllocSizes == {0, 8, PAGE_SIZE, 2 * PAGE_SIZE, USIZE_MAX}
AllocAligns == {0, 1, 3, PAGE_SIZE, 2 * PAGE_SIZE}

BaInstall(b) ==
  /\ memory' = b.memory
  /\ reserved' = b.reserved

Held(addr, size) ==
  [addr |-> addr, size |-> size,
   dup |-> Cardinality({a \in allocs : a.addr = addr})]

BaRunning == ba_last.result # "Panic"

BaAdd ==
  /\ BaRunning
  /\ \E a \in AddArgs :
       LET r == BlockAllocator_add(BA, a[1], a[2])
       IN /\ BaInstall(r.b)
          /\ ba_last' = BaCall("add", a[1], a[2], 0, r.result, 0)
  /\ UNCHANGED <<allocs, overflow_checks, pmm_vars, paging_vars, map_vars, other_vars>>

BaReserve ==
  /\ BaRunning
  /\ \E a \in ReserveArgs :
       LET r == BlockAllocator_reserve(BA, a[1], a[2])
       IN /\ BaInstall(r.b)
          /\ ba_last' = BaCall("reserve", a[1], a[2], 0, r.result, 0)
  /\ UNCHANGED <<allocs, overflow_checks, pmm_vars, paging_vars, map_vars, other_vars>>

BaAllocateOf(sizes, aligns, cap) ==
  /\ BaRunning /\ Cardinality(allocs) < cap
  /\ \E size \in sizes, align \in aligns :
       LET r == allocate_raw(BA, size, align, overflow_checks)
       IN /\ BaInstall(r.b)
          /\ allocs' = IF r.result = "Ok"
                       THEN allocs \cup {Held(r.addr, size)} ELSE allocs
          /\ ba_last' = BaCall("allocate_raw", 0, size, align, r.result,
                               r.addr)
  /\ UNCHANGED <<overflow_checks, pmm_vars, paging_vars, map_vars, other_vars>>

BaAllocate == BaAllocateOf(AllocSizes, AllocAligns, MaxBlocks)

\* free of a block the client holds, with the size it was allocated with.
BaFree ==
  /\ BaRunning
  /\ \E a \in allocs :
       LET r == BlockAllocator_free(BA, a.addr, a.size, overflow_checks)
       IN /\ BaInstall(r.b)
          /\ allocs' = allocs \ {a}
          /\ ba_last' = BaCall("free", a.addr, a.size, 0, r.result, 0)
  /\ UNCHANGED <<overflow_checks, pmm_vars, paging_vars, map_vars, other_vars>>

InitBlock ==
  MapIdle /\ PmmIdle /\ BlockInit(BOOLEAN) /\ PagingIdle /\ OtherIdle

NextBlock ==
  \/ BaAdd
  \/ BaReserve
  \/ BaAllocate
  \/ BaFree

SpecBlock == InitBlock /\ [][NextBlock]_vars

(***************************************************************************)
(* SpecFull: a boot that fills reserved[] to its capacity.  The client     *)
(* adds one region, reserves every second page from page 0 on, allocates   *)
(* one page once two regions are reserved (which joins them), and frees    *)
(* the page it holds.                                                      *)
(***************************************************************************)
FullBytes == (2 * MAX_REGIONS + 4) * PAGE_SIZE

FullAdd ==
  /\ memory = << >>
  /\ LET r == BlockAllocator_add(BA, 0, FullBytes)
     IN /\ BaInstall(r.b)
        /\ ba_last' = BaCall("add", 0, FullBytes, 0, r.result, 0)
  /\ UNCHANGED <<allocs, overflow_checks, pmm_vars, paging_vars, map_vars, other_vars>>

FullReserve ==
  /\ memory # << >> /\ ~is_full(reserved)
  /\ LET base == IF reserved = << >> THEN 0
                 ELSE RegionEnd(reserved[Len(reserved)]) + PAGE_SIZE
         r == BlockAllocator_reserve(BA, base, PAGE_SIZE)
     IN /\ BaInstall(r.b)
        /\ ba_last' = BaCall("reserve", base, PAGE_SIZE, 0, r.result, 0)
  /\ UNCHANGED <<allocs, overflow_checks, pmm_vars, paging_vars, map_vars, other_vars>>

FullAllocate ==
  /\ Len(reserved) = 2 /\ ba_last.op = "reserve"
  /\ BaAllocateOf({PAGE_SIZE}, {1}, 1)

FullFree == ba_last.op # "free" /\ BaFree

InitFull ==
  MapIdle /\ PmmIdle /\ BlockInit({FALSE}) /\ PagingIdle /\ OtherIdle

NextFull ==
  \/ FullAdd
  \/ FullReserve
  \/ FullAllocate
  \/ FullFree

SpecFull == InitFull /\ [][NextFull]_vars

(***************************************************************************)
(* SpecPaging: a client that maps and unmaps pages of one page directory.  *)
(* A panic ends the run.                                                   *)
(***************************************************************************)
\* Two pages of one level-0 table, a page of a second level-0 table, and
\* the first page of the upper half (0xFFFF_FFFF_FFFF_8000), which needs
\* two more tables.
Virts == {0, PAGE_SIZE, 16 * PAGE_SIZE, -32768}
\* Page-aligned physical addresses below and above bit 15.
Physs == {PAGE_SIZE, 32768 + 2 * PAGE_SIZE}
\* Flags without and with the present bit.
FlagSets == {0, 7}

PdInstall(pd) ==
  /\ root' = pd.root
  /\ tables' = pd.tables
  /\ next_alloc' = pd.next_alloc

PdRunning == pd_last.result # "Panic"

Map ==
  /\ PdRunning
  /\ \E virt \in Virts, phys \in Physs, flags \in FlagSets :
       LET r == map(PD, virt, phys, flags)
       IN /\ PdInstall(r.pd)
          /\ pd_last' = PdCall("map", virt, phys, flags, r.result, 0)
  /\ pd_after_map' = 0
  /\ UNCHANGED <<pmm_vars, block_vars, map_vars, other_vars>>

Unmap ==
  /\ PdRunning
  /\ \E virt \in Virts :
       LET r == unmap(PD, virt)
       IN /\ PdInstall(r.pd)
          /\ pd_last' = PdCall("unmap", virt, 0, 0, r.result, r.phys)
          /\ pd_after_map' =
               IF pd_last.op = "map" /\ pd_last.virt = virt THEN 1
               ELSE IF pd_after_map = 1 /\ pd_last.virt = virt THEN 2
               ELSE 0
  /\ UNCHANGED <<pmm_vars, block_vars, map_vars, other_vars>>

InitPaging == MapIdle /\ PmmIdle /\ BlockIdle /\ PagingInit /\ OtherIdle

NextPaging ==
  \/ Map
  \/ Unmap

SpecPaging == InitPaging /\ [][NextPaging]_vars

(***************************************************************************)
(* The memory map: from_boot_map over boot maps with holes, overrides,     *)
(* regions that are not page-aligned and regions in several sections, and  *)
(* look-ups of single frames (SpecMap).                                    *)
(***************************************************************************)
Bytes(base, size, usable) == Region(base, size, usable)
S1 == FRAMES_PER_SECTION
MapBootMaps ==
  { <<Usable(0, 100)>>,
    <<NonUsable(0, 1000), Usable(500, 100)>>,
    <<Usable(0, 100), NonUsable(40, 20)>>,
    <<Usable(10, 5), Usable(30, 5)>>,
    <<NonUsable(0, 100), Usable(40, 20)>>,
    <<Usable(40, 20), NonUsable(0, 100)>>,
    <<NonUsable(0, 8)>>,
    <<Bytes(PAGE_SIZE \div 2, 2 * PAGE_SIZE, TRUE)>>,
    <<Bytes(2 * PAGE_SIZE + 4, 4, TRUE), Usable(5, 3)>>,
    <<Bytes(4, 4, TRUE), Usable(5, 3)>>,
    <<Usable(4094, 4)>>,
    <<Usable(0, 2), NonUsable(1, S1)>>,
    <<Usable(S1 - 2, 4)>>,
    <<Usable(S1 - 3, 3)>>,
    <<Usable(0, 3), Usable(2 * S1 + 1, 2)>>,
    <<Usable(8, 2), Usable(S1 + 5, 3), NonUsable(S1 + 6, 1),
      Usable(S1 + 14, 1)>> }

\* Frame numbers looked up: around the ends of every region and section.
ProbeFrames ==
  {0, 1, 2, 3, 4, 5, 7, 8, 9, 10, 14, 15, 29, 30, 34, 35, 39, 40, 59, 60,
   99, 100, 499, 500, 599, 600, 999, 1000, 4093, 4094, 4095, 4096, 4097,
   4098}
  \cup {S1 - 4, S1 - 3, S1 - 2, S1 - 1, S1, S1 + 1, S1 + 2, S1 + 4, S1 + 5,
        S1 + 6, S1 + 7, S1 + 8, S1 + 13, S1 + 14, S1 + 15,
        2 * S1 - 1, 2 * S1, 2 * S1 + 1, 2 * S1 + 2, 2 * S1 + 3,
        3 * S1 - 1, 3 * S1, 3 * S1 + 1}

MapRunning == mm_last.result # "Panic"

\* from_boot_map over a boot map whose bases are physical addresses of the
\* architecture.
FromBootMap ==
  /\ MapRunning
  /\ \E bm \in MapBootMaps :
       /\ \A i \in 1..Len(bm) : validate_physical(bm[i].base)
       /\ LET r == MemoryMap_from_boot_map(bm)
          IN /\ map_regions' = bm
             /\ sections' = r.sections
             /\ mm_last' = MmCall("from_boot_map", 0, r.result, None, 0)
  /\ UNCHANGED <<arch, pmm_vars, block_vars, paging_vars, other_vars>>

LookupFrame ==
  /\ MapRunning
  /\ \E n \in ProbeFrames :
       mm_last' = MmCall("frame", n, "Ok",
                         MemoryMap_frame(sections, map_regions, n), 0)
  /\ UNCHANGED <<arch, map_regions, sections, pmm_vars, block_vars,
                 paging_vars, other_vars>>

AllocatedFrameCount ==
  /\ MapRunning
  /\ mm_last' = MmCall("allocated_frame_count", 0, "Ok", None,
                       MemoryMap_allocated_frame_count(sections))
  /\ UNCHANGED <<arch, map_regions, sections, pmm_vars, block_vars,
                 paging_vars, other_vars>>

InitMap ==
  /\ MapInit({"software", "x86_64"})
  /\ PmmIdle /\ BlockIdle /\ PagingIdle /\ OtherIdle

NextMap ==
  \/ FromBootMap
  \/ LookupFrame
  \/ AllocatedFrameCount

SpecMap == InitMap /\ [][NextMap]_vars

(***************************************************************************)
(* The address translator: executors that call set_current, current and    *)
(* the conversions, one step of spin::Once at a time (SpecTranslator).     *)
(***************************************************************************)
Translators ==
  {Hardware(0), Hardware(DirectMapOffset), Hardware(-65536)}
  \cup (IF arch = "software" THEN {Emulated(EmulatedSize)} ELSE {})
\* Physical addresses converted: the ends of the emulated memory, a page of
\* the direct map, and the highest addresses of the address space.
PhysInputs == {0, 1, EmulatedSize - 1, EmulatedSize, 65536, 65537, USIZE_MAX}
FrameInputs == {0, 1, 2, 4095, 4096, 4097, USIZE_MAX}
AddrInputs == {0, 1, PAGE_SIZE - 1, PAGE_SIZE, PAGE_SIZE + 1, 65535, 65536}

AtStep(p, pc) == at_pc' = [at_pc EXCEPT ![p] = pc]
AtRest == UNCHANGED <<arch, map_regions, sections, mm_last, pmm_vars,
                      block_vars, paging_vars, ka_vars, fl_vars, lock_vars,
                      flag_vars>>

\* set_current: the test of get().is_some().
SetCurrentCheck(p) ==
  /\ at_pc[p] = "idle"
  /\ \E t \in Translators :
       IF once_status[CellOf(p)] = "Complete"
       THEN /\ AtStep(p, "panicked")
            /\ at_last' = AtCall("set_current", p, t, "Panic", 0, 0, 0)
            /\ UNCHANGED at_arg
       ELSE /\ AtStep(p, "call_once")
            /\ at_arg' = [at_arg EXCEPT ![p] = t]
            /\ UNCHANGED at_last
  /\ UNCHANGED <<once_status, once_data, at_ok>>
  /\ AtRest

\* call_once: the compare-exchange of the status; an executor that finds
\* the status Running spins, one that finds it Complete returns.
CallOnce(p) ==
  /\ at_pc[p] = "call_once"
  /\ once_status[CellOf(p)] # "Running"
  /\ IF once_status[CellOf(p)] = "Incomplete"
     THEN /\ once_status' = [once_status EXCEPT ![CellOf(p)] = "Running"]
          /\ AtStep(p, "init")
          /\ UNCHANGED <<at_ok, at_last>>
     ELSE /\ AtStep(p, "idle")
          /\ at_ok' = [at_ok EXCEPT ![CellOf(p)] = @ + 1]
          /\ at_last' = AtCall("set_current", p, at_arg[p], "Ok", 0, 0, 0)
          /\ UNCHANGED once_status
  /\ UNCHANGED <<once_data, at_arg>>
  /\ AtRest

\* call_once: the winner stores the translator and completes the cell.
CallOnceStore(p) ==
  /\ at_pc[p] = "init"
  /\ once_data' = [once_data EXCEPT ![CellOf(p)] = at_arg[p]]
  /\ once_status' = [once_status EXCEPT ![CellOf(p)] = "Complete"]
  /\ AtStep(p, "idle")
  /\ at_ok' = [at_ok EXCEPT ![CellOf(p)] = @ + 1]
  /\ at_last' = AtCall("set_current", p, at_arg[p], "Ok", 0, 0, 0)
  /\ UNCHANGED at_arg
  /\ AtRest

\* AddressTranslator::current.
Current(p) ==
  /\ at_pc[p] = "idle"
  /\ IF once_status[CellOf(p)] = "Complete"
     THEN /\ at_last' = AtCall("current", p, once_data[CellOf(p)], "Ok",
                               0, 0, 0)
          /\ UNCHANGED at_pc
     ELSE /\ at_last' = AtCall("current", p, NoTranslator, "Panic", 0, 0, 0)
          /\ AtStep(p, "panicked")
  /\ UNCHANGED <<once_status, once_data, at_arg, at_ok>>
  /\ AtRest

\* virt_to_phys(phys_to_virt(phys)) through the current translator.
RoundTrip(p) ==
  /\ at_pc[p] = "idle"
  /\ once_status[CellOf(p)] = "Complete"
  /\ \E phys \in PhysInputs :
       LET t == once_data[CellOf(p)]
           v == AddressTranslator_phys_to_virt(t, phys)
           b == AddressTranslator_virt_to_phys(t, v.value)
       IN IF v.ok /\ b.ok
          THEN /\ at_last' = AtCall("round_trip", p, t, "Ok", phys, v.value,
                                    b.value)
               /\ UNCHANGED at_pc
          ELSE /\ at_last' = AtCall("round_trip", p, t, "Panic", phys, 0, 0)
               /\ AtStep(p, "panicked")
  /\ UNCHANGED <<once_status, once_data, at_arg, at_ok>>
  /\ AtRest

\* FrameNumber::from(fn.start()).
FrameStart(p) ==
  /\ at_pc[p] = "idle"
  /\ \E fn \in FrameInputs :
       LET start == FrameNumber_start(fn)
       IN IF start.ok
          THEN /\ at_last' = AtCall("frame_start", p, NoTranslator, "Ok", fn,
                                    start.value, frame_number(start.value))
               /\ UNCHANGED at_pc
          ELSE /\ at_last' = AtCall("frame_start", p, NoTranslator, "Panic",
                                    fn, 0, 0)
               /\ AtStep(p, "panicked")
  /\ UNCHANGED <<once_status, once_data, at_arg, at_ok>>
  /\ AtRest

\* FrameNumber::from(a) of a physical address of the architecture.
FrameFrom(p) ==
  /\ at_pc[p] = "idle"
  /\ \E a \in AddrInputs :
       /\ validate_physical(a)
       /\ at_last' = AtCall("frame_from", p, NoTranslator, "Ok", a, 0,
                            frame_number(a))
  /\ UNCHANGED <<once_status, once_data, at_pc, at_arg, at_ok>>
  /\ AtRest

InitTranslator ==
  /\ MapInit({"software", "x86_64"})
  /\ PmmIdle /\ BlockIdle /\ PagingIdle /\ OtherIdle

NextTranslator ==
  \E p \in Executors :
    \/ SetCurrentCheck(p)
    \/ CallOnce(p)
    \/ CallOnceStore(p)
    \/ Current(p)
    \/ RoundTrip(p)
    \/ FrameStart(p)
    \/ FrameFrom(p)

SpecTranslator == InitTranslator /\ [][NextTranslator]_vars

(***************************************************************************)
(* The kernel allocator over a seeded PMM: init_pmm, use_pmm, and alloc    *)
(* and dealloc calls of the kernel's heap users (SpecKernel).              *)
(***************************************************************************)
\* Layouts: sizes below a page, of one page, between powers of two, and
\* larger than the largest buddy block; alignments up to four pages.
LayoutSizes ==
  {1, 4096, 4097, 2 * 4096, 3 * 4096, (2 ^ MAX_ORDER) * 4096 + 1}
LayoutAligns == {1, 8, 4096, 4 * 4096}

KaRest ==
  UNCHANGED <<block_vars, paging_vars, map_vars, at_vars, fl_vars, lock_vars,
              flag_vars>>

\* One deallocate call of init_pmm, before use_pmm.
KernelSeed == ka_mode = "None" /\ Seed

\* use_pmm(init_pmm()).
UsePmm ==
  /\ ka_mode = "None" /\ Seeded
  /\ ka_mode' = "PMM"
  /\ UNCHANGED <<ka_live, ka_last, pmm_vars>>
  /\ KaRest

KernelAlloc ==
  /\ ~stopped /\ Cardinality(ka_live) < MaxHeld
  /\ \E size \in LayoutSizes, align \in LayoutAligns :
       LET r == KernelAllocator_alloc(ka_mode, PMM, size, align)
       IN /\ Install(r.s)
          /\ ka_live' = IF r.ptr = 0 THEN ka_live
                        ELSE ka_live \cup {[ptr |-> r.ptr, size |-> size,
                                            align |-> align]}
          /\ ka_last' = KaCall("alloc", size, align, r.ptr, free_frames(PMM),
                               free_frames(r.s), -1)
  /\ UNCHANGED <<ka_mode, boot_map, total_frames, seed_pos, live, last,
                 client, misuse>>
  /\ KaRest

\* dealloc of a pointer alloc returned, with the layout it was given.
KernelDealloc ==
  /\ ~stopped
  /\ \E a \in ka_live :
       LET s == KernelAllocator_dealloc(ka_mode, PMM, a.ptr, a.size, a.align)
       IN /\ Install(s)
          /\ ka_live' = ka_live \ {a}
          /\ ka_last' = KaCall("dealloc", a.size, a.align, a.ptr,
                               free_frames(PMM), free_frames(s),
                               IF ka_last.op = "alloc" /\ ka_last.ptr = a.ptr
                               THEN ka_last.free_before ELSE -1)
  /\ UNCHANGED <<ka_mode, boot_map, total_frames, seed_pos, live, last,
                 client, misuse>>
  /\ KaRest

\* dealloc before use_pmm, and dealloc of the null pointer.
KernelDeallocIgnored ==
  /\ ~stopped
  /\ \E ptr \in {0, phys_to_virt(0)}, size \in LayoutSizes :
       /\ ptr = 0 \/ ka_mode = "None"
       /\ LET s == KernelAllocator_dealloc(ka_mode, PMM, ptr, size, 1)
          IN /\ Install(s)
             /\ ka_last' = KaCall("dealloc", size, 1, ptr, free_frames(PMM),
                                  free_frames(s), -1)
  /\ UNCHANGED <<ka_mode, ka_live, boot_map, total_frames, seed_pos, live,
                 last, client, misuse>>
  /\ KaRest

InitKernel ==
  /\ MapInit({"x86_64"})
  /\ PmmInit(BootMaps, "idle")
  /\ BlockIdle /\ PagingIdle /\ OtherIdle

NextKernel ==
  \/ KernelSeed
  \/ UsePmm
  \/ KernelAlloc
  \/ KernelDealloc
  \/ KernelDeallocIgnored

SpecKernel == InitKernel /\ [][NextKernel]_vars

(***************************************************************************)
(* FreeList::push and FreeList::pop of the order-0 list, run by several    *)
(* executors one atomic access at a time (SpecConc).  An executor pushes   *)
(* blocks it holds and holds the blocks it pops.                           *)
(***************************************************************************)
FlStep(p, pc) == fl_pc' = [fl_pc EXCEPT ![p] = pc]
FlRest ==
  UNCHANGED <<boot_map, memory_map, total_frames, stopped, seed_pos, live,
              last, client, misuse, block_vars, paging_vars, map_vars,
              at_vars, ka_vars, lock_vars, flag_vars>>

\* Calls start while the count of the list is one that a list of ConcBlocks
\* blocks with a call in flight on every executor can show.
CountInRange ==
  count[0] >= 0 - MaxExecutors /\ count[0] <= ConcBlocks + MaxExecutors

\* push(block) is called with a block the executor holds.
PushCall(p) ==
  /\ fl_pc[p] = "idle"
  /\ CountInRange
  /\ \E b \in fl_owned[p] : fl_block' = [fl_block EXCEPT ![p] = b]
  /\ FlStep(p, "push_load")
  /\ UNCHANGED <<head, count, mem, fl_head, fl_next, fl_owned>>
  /\ FlRest

\* let head = self.head.load(Acquire)
PushLoad(p) ==
  /\ fl_pc[p] = "push_load"
  /\ fl_head' = [fl_head EXCEPT ![p] = head[0]]
  /\ FlStep(p, "push_write")
  /\ UNCHANGED <<head, count, mem, fl_next, fl_block, fl_owned>>
  /\ FlRest

\* (*block).next = head
PushWrite(p) ==
  /\ fl_pc[p] = "push_write"
  /\ mem' = [mem EXCEPT ![fl_block[p]] = fl_head[p]]
  /\ FlStep(p, "push_cas")
  /\ UNCHANGED <<head, count, fl_head, fl_next, fl_block, fl_owned>>
  /\ FlRest

\* self.head.compare_exchange(head, block): the block is on the list when
\* it succeeds, the loop starts again when it fails.
PushCas(p) ==
  /\ fl_pc[p] = "push_cas"
  /\ IF head[0] = fl_head[p]
     THEN /\ head' = [head EXCEPT ![0] = fl_block[p]]
          /\ fl_owned' = [fl_owned EXCEPT ![p] = @ \ {fl_block[p]}]
          /\ FlStep(p, "push_count")
     ELSE /\ FlStep(p, "push_load")
          /\ UNCHANGED <<head, fl_owned>>
  /\ UNCHANGED <<count, mem, fl_head, fl_next, fl_block>>
  /\ FlRest

\* self.count.fetch_add(1)
PushCount(p) ==
  /\ fl_pc[p] = "push_count"
  /\ count' = [count EXCEPT ![0] = @ + 1]
  /\ FlStep(p, "idle")
  /\ UNCHANGED <<head, mem, fl_head, fl_next, fl_block, fl_owned>>
  /\ FlRest

\* pop: let head = self.head.load(Acquire); None when it is null.
PopLoad(p) ==
  /\ fl_pc[p] \in {"idle", "pop_load"}
  /\ fl_pc[p] = "idle" => CountInRange
  /\ fl_head' = [fl_head EXCEPT ![p] = head[0]]
  /\ FlStep(p, IF head[0] = NULL THEN "idle" ELSE "pop_read")
  /\ UNCHANGED <<head, count, mem, fl_next, fl_block, fl_owned>>
  /\ FlRest

\* let next = (*head).next
PopRead(p) ==
  /\ fl_pc[p] = "pop_read"
  /\ fl_next' = [fl_next EXCEPT ![p] = mem[fl_head[p]]]
  /\ FlStep(p, "pop_cas")
  /\ UNCHANGED <<head, count, mem, fl_head, fl_block, fl_owned>>
  /\ FlRest

\* self.head.compare_exchange(head, next): the executor holds the block
\* when it succeeds.
PopCas(p) ==
  /\ fl_pc[p] = "pop_cas"
  /\ IF head[0] = fl_head[p]
     THEN /\ head' = [head EXCEPT ![0] = fl_next[p]]
          /\ fl_owned' = [fl_owned EXCEPT ![p] = @ \cup {fl_head[p]}]
          /\ FlStep(p, "pop_count")
     ELSE /\ FlStep(p, "pop_load")
          /\ UNCHANGED <<head, fl_owned>>
  /\ UNCHANGED <<count, mem, fl_head, fl_next, fl_block>>
  /\ FlRest

\* self.count.fetch_sub(1)
PopCount(p) ==
  /\ fl_pc[p] = "pop_count"
  /\ count' = [count EXCEPT ![0] = @ - 1]
  /\ FlStep(p, "idle")
  /\ UNCHANGED <<head, mem, fl_head, fl_next, fl_block, fl_owned>>
  /\ FlRest

ConcMap == <<Usable(0, ConcBlocks)>>

InitConc ==
  /\ MapIdle
  /\ PmmInit({ConcMap}, "idle")
  /\ BlockIdle /\ PagingIdle /\ TranslatorInit /\ KernelInit /\ LockInit
  /\ FlagIdle
  /\ FreeListInit(BlockPtrs(ConcMap))

NextConc ==
  \E p \in Executors :
    \/ PushCall(p)
    \/ PushLoad(p)
    \/ PushWrite(p)
    \/ PushCas(p)
    \/ PushCount(p)
    \/ PopLoad(p)
    \/ PopRead(p)
    \/ PopCas(p)
    \/ PopCount(p)

SpecConc == InitConc /\ [][NextConc]_vars

(***************************************************************************)
(* The boot sequence of kernel_main (SpecBoot): init_allocator, then       *)
(* init_pmm, whose memory map takes its storage from the block allocator   *)
(* through the global allocator, then use_pmm.                             *)
(***************************************************************************)
\* size_of::<Frame>() and size_of::<Section>(), both aligned to 8.
FRAME_SIZE == 16
SECTION_SIZE == 24
BOX_ALIGN == 8

\* The loop of init_allocator over the boot map from entry i on.
RECURSIVE init_allocator_from(_, _, _)
init_allocator_from(bm, i, b) ==
  IF i > Len(bm) THEN BaResult(b, "Ok", 0)
  ELSE LET r == IF bm[i].usable
                THEN BlockAllocator_add(b, bm[i].base, bm[i].size)
                ELSE BlockAllocator_reserve(b, bm[i].base, bm[i].size)
       IN IF r.result # "Ok" THEN BaResult(r.b, "Panic", 0)
          ELSE init_allocator_from(bm, i + 1, r.b)
init_allocator(bm) == init_allocator_from(bm, 1, BlockAllocator_new)

\* The allocations MemoryMap::from_boot_map makes: the array of sections,
\* then the Frame array of every section that has one.  held is the set of
\* the blocks handed out.
RECURSIVE box_frames(_, _, _, _)
box_frames(secs, k, b, held) ==
  IF k > Len(secs) THEN [b |-> b, result |-> "Ok", held |-> held]
  ELSE IF ~secs[k].frames \/ secs[k].len = 0
  THEN box_frames(secs, k + 1, b, held)
  ELSE LET r == allocate_raw(b, secs[k].len * FRAME_SIZE, BOX_ALIGN, FALSE)
       IN IF r.result # "Ok" THEN [b |-> r.b, result |-> "Panic", held |-> held]
          ELSE box_frames(secs, k + 1, r.b,
                 held \cup {[addr |-> r.addr, size |-> secs[k].len * FRAME_SIZE,
                             dup |-> 0]})
box_memory_map(b, secs) ==
  IF Len(secs) = 0 THEN [b |-> b, result |-> "Ok", held |-> {}]
  ELSE LET r == allocate_raw(b, Len(secs) * SECTION_SIZE, BOX_ALIGN, FALSE)
       IN IF r.result # "Ok" THEN [b |-> r.b, result |-> "Panic", held |-> {}]
          ELSE box_frames(secs, 1, r.b,
                 {[addr |-> r.addr, size |-> Len(secs) * SECTION_SIZE,
                   dup |-> 0]})

BootRest ==
  UNCHANGED <<paging_vars, at_vars, fl_vars, lock_vars, flag_vars>>

\* init_allocator().
BootInitAllocator ==
  /\ ka_mode = "None"
  /\ LET r == init_allocator(boot_map)
     IN /\ BaInstall(r.b)
        /\ ba_last' = BaCall("init_allocator", 0, 0, 0, r.result, 0)
        /\ ka_mode' = IF r.result = "Ok" THEN "BlockAllocator" ELSE "None"
  /\ UNCHANGED <<allocs, overflow_checks, ka_live, ka_last, pmm_vars,
                 map_vars>>
  /\ BootRest

\* init_pmm up to PhysicalMemoryManager::new: MemoryMap::from_boot_map.
BootMemoryMap ==
  /\ ka_mode = "BlockAllocator" /\ map_regions = << >> /\ BaRunning
  /\ LET m == MemoryMap_from_boot_map(boot_map)
         r == box_memory_map(BA, m.sections)
     IN /\ BaInstall(r.b)
        /\ allocs' = r.held
        /\ ba_last' = BaCall("from_boot_map", 0, 0, 0, r.result, 0)
        /\ map_regions' = boot_map
        /\ sections' = m.sections
        /\ mm_last' = MmCall("from_boot_map", 0, m.result, None, 0)
  /\ UNCHANGED <<arch, overflow_checks, ka_vars, pmm_vars>>
  /\ BootRest

\* One deallocate call of the loop of init_pmm.
BootSeed ==
  /\ ka_mode = "BlockAllocator" /\ map_regions # << >> /\ BaRunning
  /\ Seed

\* use_pmm(pmm).
BootUsePmm ==
  /\ ka_mode = "BlockAllocator" /\ map_regions # << >> /\ BaRunning
  /\ Seeded
  /\ ka_mode' = "PMM"
  /\ UNCHANGED <<ka_live, ka_last, pmm_vars>>
  /\ KaRest

\* The kernel allocates and frees through the facade after the switch.
BootAlloc == ka_mode = "PMM" /\ KernelAlloc
BootDealloc == ka_mode = "PMM" /\ KernelDealloc

InitBoot ==
  /\ MapInit({"x86_64"})
  /\ PmmInit(BootMaps, "idle")
  /\ BlockIdle /\ PagingIdle /\ OtherIdle

NextBoot ==
  \/ BootInitAllocator
  \/ BootMemoryMap
  \/ BootSeed
  \/ BootUsePmm
  \/ BootAlloc
  \/ BootDealloc

SpecBoot == InitBoot /\ [][NextBoot]_vars

(***************************************************************************)
(* SpecIrq: KernelAllocator::alloc and dealloc with the spin lock of the   *)
(* facade as a step of its own.  A task runs on each of two processors;    *)
(* an interrupt on processor 0 runs interrupt_was_received, which pushes   *)
(* the interrupt context on a LinkedList (an alloc call) and panics.  The  *)
(* task of processor 0 makes no step while the handler is on its stack.    *)
(***************************************************************************)
IrqMap == <<Usable(0, ConcBlocks)>>
\* Layouts of the tasks, and of a LinkedList node of the handler.
IrqSizes == {4096, 2 * 4096}
NodeSize == 64
Tasks == Contexts \ {"irq0"}
KaReq(op, ptr, size, align) ==
  [op |-> op, ptr |-> ptr, size |-> size, align |-> align]

\* The processor of c executes c.
Runs(c) ==
  /\ ka_pc[c] # "panicked"
  /\ c = "task0" => ka_pc["irq0"] = "idle"
  /\ c = "irq0" => ka_pc["irq0"] # "idle"

KaStep(c, pc, req) ==
  /\ ka_pc' = [ka_pc EXCEPT ![c] = pc]
  /\ ka_req' = [ka_req EXCEPT ![c] = req]
IrqRest ==
  UNCHANGED <<block_vars, paging_vars, map_vars, at_vars, fl_vars, flag_vars,
              memory_locked, reserved_locked, ba_pc, ba_req, ka_mode,
              boot_map, total_frames, seed_pos, live, last, client, misuse>>
PmmRest == UNCHANGED <<memory_map, head, count, mem, stopped>>

\* A task calls alloc: it reaches self.inner.lock().
KaAllocCall(c) ==
  /\ ka_pc[c] = "idle" /\ Runs(c) /\ Cardinality(ka_live) < MaxHeld
  /\ \E size \in IrqSizes : KaStep(c, "lock", KaReq("alloc", 0, size, 1))
  /\ UNCHANGED <<ka_locked, ka_live, ka_last>>
  /\ PmmRest /\ IrqRest

\* A task calls dealloc with a pointer it holds.
KaDeallocCall(c) ==
  /\ ka_pc[c] = "idle" /\ Runs(c)
  /\ \E a \in ka_live :
       /\ KaStep(c, "lock", KaReq("dealloc", a.ptr, a.size, a.align))
       /\ ka_live' = ka_live \ {a}
  /\ UNCHANGED <<ka_locked, ka_last>>
  /\ PmmRest /\ IrqRest

\* An interrupt arrives on processor 0: interrupt_was_received up to the
\* lock() of the alloc call of push_front, or, when can_allocate()
\* (not part of the sources at hand) returns false, up to its panic.
InterruptReceived ==
  /\ ka_pc["irq0"] = "idle"
  /\ \E can \in BOOLEAN :
       IF can THEN KaStep("irq0", "lock", KaReq("alloc", 0, NodeSize, 8))
       ELSE KaStep("irq0", "panicked", NoReq)
  /\ UNCHANGED <<ka_locked, ka_live, ka_last>>
  /\ PmmRest /\ IrqRest

\* spin::Mutex::lock: the compare-exchange that takes the free lock.  While
\* the lock is held the caller spins, which changes nothing.
KaLock(c) ==
  /\ ka_pc[c] = "lock" /\ Runs(c)
  /\ ~ka_locked
  /\ ka_locked' = TRUE
  /\ KaStep(c, "held", ka_req[c])
  /\ UNCHANGED <<ka_live, ka_last>>
  /\ PmmRest /\ IrqRest

\* The match on the inner allocator, the drop of the guard and the return;
\* the handler goes on to its panic.
KaReturn(c) ==
  /\ ka_pc[c] = "held" /\ Runs(c) /\ ~stopped
  /\ LET q == ka_req[c]
         r == IF q.op = "alloc"
              THEN KernelAllocator_alloc(ka_mode, PMM, q.size, q.align)
              ELSE [s |-> KernelAllocator_dealloc(ka_mode, PMM, q.ptr, q.size,
                                                  q.align),
                    ptr |-> q.ptr]
     IN /\ Install(r.s)
        /\ ka_live' = IF q.op = "alloc" /\ r.ptr # 0 /\ c \in Tasks
                      THEN ka_live \cup {[ptr |-> r.ptr, size |-> q.size,
                                           align |-> q.align]}
                      ELSE ka_live
        /\ ka_last' = KaCall(q.op, q.size, q.align, r.ptr, free_frames(PMM),
                             free_frames(r.s), -1)
  /\ ka_locked' = FALSE
  /\ KaStep(c, IF c = "irq0" THEN "panicked" ELSE "idle", NoReq)
  /\ IrqRest

\* use_pmm(init_pmm()), which takes the lock for its assignment.
IrqUsePmm == ~ka_locked /\ UsePmm

InitIrq ==
  /\ MapInit({"x86_64"})
  /\ PmmInit({IrqMap}, "idle")
  /\ BlockIdle /\ PagingIdle /\ OtherIdle

NextIrq ==
  \/ KernelSeed
  \/ IrqUsePmm
  \/ InterruptReceived
  \/ \E c \in Tasks : KaAllocCall(c) \/ KaDeallocCall(c)
  \/ \E c \in Contexts : KaLock(c) \/ KaReturn(c)

\* A processor keeps executing the context on top of its stack, and a
\* context that spins on a lock that is free again and again takes it.
SpecIrq ==
  /\ InitIrq /\ [][NextIrq]_vars
  /\ \A c \in Contexts : SF_vars(KaLock(c)) /\ WF_vars(KaReturn(c))

(***************************************************************************)
(* SpecShared: Allocator::allocate and Allocator::deallocate of one        *)
(* BlockAllocator called by several executors, every lock() a step of its  *)
(* own.  The allocator starts as boot leaves it after add(0, FullBytes)    *)
(* and the reserve of every second page from page 4 on, one region short   *)
(* of the capacity of reserved[].                                          *)
(***************************************************************************)
SharedReserved ==
  [i \in 1..(MAX_REGIONS - 1) |->
     MemoryRegion((2 * i + 2) * PAGE_SIZE, PAGE_SIZE)]
\* Blocks the executors hold at a time.
SharedBlocks == 4

\* Allocator::allocate between the two lock() calls and the return.
Allocator_allocate(b, size, align, checks) ==
  IF align = 0 \/ BitAnd(align, align - 1) # 0
  THEN BaResult(b, "AllocError", 0)
  ELSE IF checks /\ Overflows(size, PAGE_SIZE - 1)
  THEN BaResult(b, "Panic", 0)
  ELSE LET aligned_size == AndNot(size + PAGE_SIZE - 1, PAGE_SIZE - 1)
           found == scan_memory(b, 1, aligned_size, align)
           r == RegionArray_add(b.reserved, MemoryRegion(found, aligned_size))
       IN IF aligned_size = 0 \/ found = -1 \/ r.err # "None"
          THEN BaResult(b, "AllocError", 0)
          ELSE BaResult([b EXCEPT !.reserved = r.arr], "Ok",
                        phys_to_virt(found))

\* Allocator::deallocate: the result of subtract is dropped.
Allocator_deallocate(b, ptr, size) ==
  LET phys_base == virt_to_phys(ptr)
      aligned_base == AndNot(phys_base, PAGE_SIZE - 1)
      aligned_end == AndNot(phys_base + size + PAGE_SIZE - 1, PAGE_SIZE - 1)
  IN [b EXCEPT !.reserved =
        RegionArray_subtract(b.reserved,
                             MemoryRegion(aligned_base,
                                          aligned_end - aligned_base)).arr]

BaStep(p, pc, req) ==
  /\ ba_pc' = [ba_pc EXCEPT ![p] = pc]
  /\ ba_req' = [ba_req EXCEPT ![p] = req]
SharedRest ==
  UNCHANGED <<overflow_checks, pmm_vars, paging_vars, map_vars, at_vars,
              ka_vars, fl_vars, flag_vars, ka_locked, ka_pc, ka_req>>
SharedIdle == UNCHANGED <<memory, reserved, ba_last>>

\* allocate up to self.memory.lock().
SharedAllocCall(p) ==
  /\ ba_pc[p] = "idle" /\ Cardinality(allocs) < SharedBlocks
  /\ BaStep(p, "memory", KaReq("allocate", 0, PAGE_SIZE, 1))
  /\ UNCHANGED <<allocs, memory_locked, reserved_locked>>
  /\ SharedIdle /\ SharedRest

\* self.memory.lock() of allocate.
SharedLockMemory(p) ==
  /\ ba_pc[p] = "memory" /\ ~memory_locked
  /\ memory_locked' = TRUE
  /\ BaStep(p, "reserved", ba_req[p])
  /\ UNCHANGED <<allocs, reserved_locked>>
  /\ SharedIdle /\ SharedRest

\* self.reserved.lock() of allocate.
SharedLockReserved(p) ==
  /\ ba_pc[p] = "reserved" /\ ~reserved_locked
  /\ reserved_locked' = TRUE
  /\ BaStep(p, "search", ba_req[p])
  /\ UNCHANGED <<allocs, memory_locked>>
  /\ SharedIdle /\ SharedRest

\* The search, reserved.add, and the drop of both guards at the return.
SharedSearch(p) ==
  /\ ba_pc[p] = "search"
  /\ LET q == ba_req[p]
         r == Allocator_allocate(BA, q.size, q.align, overflow_checks)
     IN /\ BaInstall(r.b)
        /\ allocs' = IF r.result = "Ok"
                     THEN allocs \cup {Held(r.addr, q.size)} ELSE allocs
        /\ ba_last' = BaCall("allocate", 0, q.size, q.align, r.result,
                             r.addr)
  /\ memory_locked' = FALSE /\ reserved_locked' = FALSE
  /\ BaStep(p, "idle", NoReq)
  /\ SharedRest

\* deallocate of a block an executor holds, up to self.reserved.lock().
SharedFreeCall(p) ==
  /\ ba_pc[p] = "idle"
  /\ \E a \in allocs :
       /\ BaStep(p, "free", KaReq("deallocate", a.addr, a.size, 1))
       /\ allocs' = allocs \ {a}
  /\ UNCHANGED <<memory_locked, reserved_locked>>
  /\ SharedIdle /\ SharedRest

\* self.reserved.lock() of deallocate.
SharedFreeLock(p) ==
  /\ ba_pc[p] = "free" /\ ~reserved_locked
  /\ reserved_locked' = TRUE
  /\ BaStep(p, "subtract", ba_req[p])
  /\ UNCHANGED <<allocs, memory_locked>>
  /\ SharedIdle /\ SharedRest

\* subtract and the drop of the guard.
SharedSubtract(p) ==
  /\ ba_pc[p] = "subtract"
  /\ LET q == ba_req[p]
     IN /\ BaInstall(Allocator_deallocate(BA, q.ptr, q.size))
        /\ ba_last' = BaCall("deallocate", q.ptr, q.size, 0, "Ok", 0)
  /\ reserved_locked' = FALSE
  /\ BaStep(p, "idle", NoReq)
  /\ UNCHANGED <<allocs, memory_locked>>
  /\ SharedRest

SharedStep(p) ==
  \/ SharedLockMemory(p)
  \/ SharedLockReserved(p)
  \/ SharedSearch(p)
  \/ SharedFreeLock(p)
  \/ SharedSubtract(p)

InitShared ==
  /\ MapIdle /\ PmmIdle /\ PagingIdle /\ OtherIdle
  /\ memory = <<MemoryRegion(0, FullBytes)>>
  /\ reserved = SharedReserved
  /\ allocs = {}
  /\ ba_last = BaCall("new", 0, 0, 0, "Ok", 0)
  /\ overflow_checks \in BOOLEAN

NextShared ==
  \E p \in Executors :
    \/ SharedAllocCall(p)
    \/ SharedFreeCall(p)
    \/ SharedStep(p)

SpecShared == InitShared /\ [][NextShared]_vars

(***************************************************************************)
(* SpecFlags: the flag word of one frame (crates/pmm/src/frame.rs).  The   *)
(* u64 is the set of its bits that are 1, so | is union, & intersection    *)
(* and ! the complement in 0..63.                                          *)
(***************************************************************************)
U64_BITS == 64
AllBits == 0..(U64_BITS - 1)
\* flag as u64: Allocated = 1 << 0, Reserved = 1 << 1.
FrameFlag == [Allocated |-> {0}, Reserved |-> {1}]
FlagNames == DOMAIN FrameFlag

FrameFlags_set(w, flag) == w \cup FrameFlag[flag]
FrameFlags_clear(w, flag) == w \cap (AllBits \ FrameFlag[flag])
FrameFlags_test(w, flag) == (w \cap FrameFlag[flag]) # {}
atomic_set(w, flag) == w \cup FrameFlag[flag]
\* fetch_or of the complemented mask.
atomic_clear(w, flag) == w \cup (AllBits \ FrameFlag[flag])
atomic_test(w, flag) == (w \cap FrameFlag[flag]) # {}

FlagRest ==
  UNCHANGED <<pmm_vars, block_vars, paging_vars, map_vars, at_vars, ka_vars,
              fl_vars, lock_vars>>
FlagCall(op, flag, w, result) ==
  /\ ff_bits' = w
  /\ ff_last' = FfCall(op, flag, result)

FlagSet ==
  /\ \E f \in FlagNames :
       FlagCall("set", f, FrameFlags_set(ff_bits, f), FALSE)
  /\ FlagRest
FlagClear ==
  /\ \E f \in FlagNames :
       FlagCall("clear", f, FrameFlags_clear(ff_bits, f), FALSE)
  /\ FlagRest
FlagTest ==
  /\ \E f \in FlagNames :
       FlagCall("test", f, ff_bits, FrameFlags_test(ff_bits, f))
  /\ FlagRest
FlagTestAndSet ==
  /\ \E f \in FlagNames :
       FlagCall("test_and_set", f, FrameFlags_set(ff_bits, f),
                FrameFlags_test(ff_bits, f))
  /\ FlagRest
FlagAtomicSet ==
  /\ \E f \in FlagNames :
       FlagCall("atomic_set", f, atomic_set(ff_bits, f), FALSE)
  /\ FlagRest
FlagAtomicClear ==
  /\ \E f \in FlagNames :
       FlagCall("atomic_clear", f, atomic_clear(ff_bits, f), FALSE)
  /\ FlagRest
FlagAtomicTest ==
  /\ \E f \in FlagNames :
       FlagCall("atomic_test", f, ff_bits, atomic_test(ff_bits, f))
  /\ FlagRest

\* Words with no flag, each flag, both flags, and bits that are no flag.
FlagWords == {{}, {0}, {1}, {0, 1}, {2}, {0, U64_BITS - 1}}

InitFlags ==
  /\ MapIdle /\ PmmIdle /\ BlockIdle /\ PagingIdle
  /\ TranslatorInit /\ KernelInit /\ FreeListInit({}) /\ LockInit
  /\ FlagInit(FlagWords)

NextFlags ==
  \/ FlagSet
  \/ FlagClear
  \/ FlagTest
  \/ FlagTestAndSet
  \/ FlagAtomicSet
  \/ FlagAtomicClear
  \/ FlagAtomicTest

SpecFlags == InitFlags /\ [][NextFlags]_vars

(***************************************************************************)
(* Views of the state used by the properties.                              *)
(***************************************************************************)
\* The blocks reachable from the head of list k, following at most as many
\* next pointers as there are pages.
RECURSIVE Walk(_, _)
Walk(p, fuel) ==
  IF p = NULL \/ fuel = 0 THEN << >>
  ELSE <<ptr_to_phys(p)>> \o Walk(mem[p], fuel - 1)
ListOf(k) == Walk(head[k], Cardinality(DOMAIN mem))
FreeBlocks ==
  UNION {{[addr |-> ListOf(k)[i], order |-> k] : i \in 1..Len(ListOf(k))} :
           k \in Orders}

RECURSIVE SumLive(_)
SumLive(S) ==
  IF S = {} THEN 0
  ELSE LET b == CHOOSE x \in S : TRUE
       IN (2 ^ b.order) + SumLive(S \ {b})
ReservedFrames == {f \in DOMAIN memory_map : "Reserved" \in memory_map[f].flags}
FreeFrameSet == UNION {BlockFrames(b.addr, b.order) : b \in FreeBlocks}

Block(addr, order) == [addr |-> addr, order |-> order]
AllocatorUnchanged == UNCHANGED <<memory_map, head, count, mem, total_frames>>

(***************************************************************************)
(* Properties.                                                             *)
(***************************************************************************)
\* C1: two live allocations never share a frame.
NoSharedFrame ==
  \A a \in live, b \in live :
    a # b => BlockFrames(a.addr, a.order) \cap BlockFrames(b.addr, b.order) = {}
\* Two allocations are live after one was given back.
NoSharedFrameWitness ==
  /\ Cardinality(live) >= 2
  /\ last.op = "deallocate" /\ last.order <= MAX_ORDER

FreeBlocksAligned ==
  Seeded => \A b \in FreeBlocks : b.addr % BlockSize(b.order) = 0

\* C4: once seeded, frames in live allocations + free_frames() + Reserved
\* frames = total_frames().
FramesConserved ==
  Seeded =>
    SumLive(live) + free_frames(PMM) + Cardinality(ReservedFrames)
      = total_frames

\* C5: the leading frame of a free block of list k has order k and is not
\* Allocated; the leading frame of a live allocation of order k is
\* Allocated and has order k.
LeadingFrameMarked ==
  /\ \A b \in FreeBlocks :
       /\ frame_number(b.addr) \in DOMAIN memory_map
       /\ memory_map[frame_number(b.addr)].order = b.order
       /\ "Allocated" \notin memory_map[frame_number(b.addr)].flags
  /\ \A a \in live :
       /\ frame_number(a.addr) \in DOMAIN memory_map
       /\ memory_map[frame_number(a.addr)].order = a.order
       /\ "Allocated" \in memory_map[frame_number(a.addr)].flags
\* A block split off by an allocation is free while the allocation is live.
LeadingFrameMarkedWitness ==
  /\ last.op = "allocate" /\ last.result = "Ok"
  /\ Block(last.addr, last.order) \in {Block(a.addr, a.order) : a \in live}
  /\ Block(last.addr + BlockSize(last.order), last.order) \in FreeBlocks

\* C6: a deallocate of a block that is not a live allocation of that order
\* is ignored: no free list and no frame metadata changes.
MisuseIgnored ==
  [][(last'.op = "deallocate_not_live" /\ misuse' = misuse + 1) =>
       AllocatorUnchanged /\ ~stopped']_vars

\* C7: after a successful allocate_aligned(k, a) the address is a multiple
\* of 2^a * PAGE_SIZE, its leading frame is Allocated with order k, and the
\* free blocks inside the order-a block are exactly one block of each order
\* o, k <= o < a, at address + 2^o * PAGE_SIZE.
AlignedAllocation ==
  (last.op = "allocate_aligned" /\ last.result = "Ok"
     /\ last.align <= MAX_ORDER) =>
    LET f == frame_number(last.addr)
    IN /\ last.addr % BlockSize(last.align) = 0
       /\ f \in DOMAIN memory_map
       /\ "Allocated" \in memory_map[f].flags
       /\ memory_map[f].order = last.order
       /\ {b \in FreeBlocks :
             BlockFrames(b.addr, b.order) \cap BlockFrames(last.addr, last.align)
               # {}}
          = {Block(last.addr + BlockSize(o), o) :
               o \in last.order..(last.align - 1)}

SeedAndDrain ==
  /\ (Seeded /\ phase = "fill" /\ stack = << >>) =>
       free_frames(PMM) = DrainFrames
  /\ (last.op = "allocate" /\ last.result # "Ok") =>
       /\ last.result = "OutOfMemory"
       /\ Len(stack) = DrainFrames
       /\ Cardinality({stack[i] : i \in 1..Len(stack)}) = DrainFrames
       /\ free_frames(PMM) = 0
  /\ phase = "done" =>
       /\ count = [k \in Orders |-> IF k = MAX_ORDER THEN 2 ELSE 0]
       /\ \A k \in 0..(MAX_ORDER - 1) : head[k] = NULL
       /\ {ListOf(MAX_ORDER)[i] : i \in 1..Len(ListOf(MAX_ORDER))}
            = {0, BlockSize(MAX_ORDER)}
       /\ Len(ListOf(MAX_ORDER)) = 2
\* The client has given back every frame.
SeedAndDrainWitness == phase = "done" /\ stack = << >> /\ last.op = "deallocate"

\* C10: calls with invalid arguments report their error and change nothing
\* of the allocator.
InvalidArguments ==
  [][/\ (last'.op = "allocate" /\ last'.order > MAX_ORDER) =>
          last'.result = "OrderTooLarge" /\ AllocatorUnchanged /\ live' = live
     /\ (last'.op = "allocate_aligned" /\ last'.order > MAX_ORDER) =>
          last'.result = "OrderTooLarge" /\ AllocatorUnchanged /\ live' = live
     /\ (last'.op = "allocate_aligned" /\ last'.order <= MAX_ORDER
           /\ last'.align < last'.order) =>
          last'.result = "InvalidAlignment" /\ AllocatorUnchanged /\ live' = live
     /\ (last'.op = "deallocate" /\ last'.order > MAX_ORDER) =>
          AllocatorUnchanged /\ live' = live
    ]_vars
\* An allocate_aligned with an alignment below its order was rejected while
\* blocks were free and live.
InvalidArgumentsWitness ==
  /\ last.op = "allocate_aligned" /\ last.result = "InvalidAlignment"
  /\ live # {} /\ FreeBlocks # {}

(***************************************************************************)
(* Views of the block allocator.                                           *)
(***************************************************************************)
RegionBytes(r) == r.base..(RegionEnd(r) - 1)
Covered(arr) == UNION {RegionBytes(arr[i]) : i \in 1..Len(arr)}
\* End of the highest region of memory[].
TopOfMemory == Max({0} \cup {RegionEnd(memory[i]) : i \in 1..Len(memory)})
PageFloor(x) == (x \div PAGE_SIZE) * PAGE_SIZE
PageCeil(x) == ((x + PAGE_SIZE - 1) \div PAGE_SIZE) * PAGE_SIZE
\* The bytes of ceil(size / PAGE_SIZE) pages at phys; for size usize::MAX,
\* the part of them below the end of memory[].
SpanOf(phys, size) ==
  IF size = USIZE_MAX THEN phys..(TopOfMemory - 1)
  ELSE phys..(phys + PageCeil(size) - 1)
HeldSpan(a) == SpanOf(virt_to_phys(a.addr), a.size)
IsPowerOfTwo(a) == \E k \in 0..30 : a = 2 ^ k
WellFormed(arr) ==
  \A i \in 1..Len(arr) :
    /\ arr[i].size > 0
    /\ i < Len(arr) => RegionEnd(arr[i]) < arr[i + 1].base

\* C11: a successful allocate_raw(s, align) returns a span of
\* ceil(s / PAGE_SIZE) pages that lies inside one region of memory[], meets
\* no region reserved before the call, is reserved after the call, and
\* meets no block allocated before and not yet freed.
AllocationInsideMemory ==
  [][(ba_last'.op = "allocate_raw" /\ ba_last'.result = "Ok"
      /\ allocs' # allocs) =>
       LET span == SpanOf(virt_to_phys(ba_last'.addr), ba_last'.size)
       IN /\ span # {}
          /\ \E i \in 1..Len(memory) : span \subseteq RegionBytes(memory[i])
          /\ span \cap Covered(reserved) = {}
          /\ span \subseteq Covered(reserved')
          /\ \A a \in allocs : HeldSpan(a) \cap span = {}]_vars

\* C12: after every call memory[] and reserved[] are sorted, hold no empty
\* region, and consecutive regions neither overlap nor touch; a successful
\* add or reserve of region r makes the array cover the old set and r, an
\* allocation adds its span, and a free of region r makes reserved[] cover
\* the old set without r.
RegionArraysLaw ==
  [][/\ WellFormed(memory') /\ WellFormed(reserved')
     /\ (ba_last'.op = "add" /\ ba_last'.result = "Ok") =>
          Covered(memory') = Covered(memory) \cup
            (PageCeil(ba_last'.base)
               ..(PageFloor(ba_last'.base + ba_last'.size) - 1))
     /\ (ba_last'.op = "reserve" /\ ba_last'.result = "Ok"
         /\ ba_last'.size > 0) =>
          Covered(reserved') = Covered(reserved) \cup
            (PageFloor(ba_last'.base)
               ..(PageCeil(ba_last'.base + ba_last'.size) - 1))
     /\ (ba_last'.op = "allocate_raw" /\ ba_last'.result = "Ok"
         /\ allocs' # allocs /\ ba_last'.size # USIZE_MAX) =>
          Covered(reserved') = Covered(reserved) \cup
            SpanOf(virt_to_phys(ba_last'.addr), ba_last'.size)
     /\ (ba_last'.op = "free" /\ allocs' # allocs
         /\ ba_last'.size # USIZE_MAX) =>
          Covered(reserved') = Covered(reserved) \
            SpanOf(virt_to_phys(ba_last'.base), ba_last'.size)]_vars

\* C13: available_memory() + reserved_memory() = total_memory() after every
\* call.
MemoryAccounting ==
  available_memory(BA) + reserved_memory(BA) = total_memory(BA)

\* C14: free of a block the client holds succeeds and removes the block's
\* span from reserved[] and nothing else: every other reserved address
\* stays reserved, and reserved_memory() drops by the size of the span.
FreeRemovesBlockOnly ==
  [][\A a \in allocs :
       (allocs' = allocs \ {a} /\ ba_last'.op = "free"
        /\ a.size # USIZE_MAX) =>
         /\ ba_last'.result = "Ok"
         /\ Covered(reserved) \ HeldSpan(a) \subseteq Covered(reserved')
         /\ Covered(reserved') \cap HeldSpan(a) = {}
         /\ total_size(reserved') =
              total_size(reserved) - Cardinality(HeldSpan(a))]_vars

\* C15: allocate_raw(size, align) returns InvalidAlignment whenever align
\* is zero or not a power of two, returns OutOfMemory when align is valid
\* and no span of ceil(size / PAGE_SIZE) pages fits, and changes neither
\* array in both cases.
NoSpanFits(size, align) ==
  ~\E phys \in 0..TopOfMemory :
     /\ phys % align = 0
     /\ size = USIZE_MAX => FALSE
     /\ \E i \in 1..Len(memory) :
          SpanOf(phys, size) \subseteq RegionBytes(memory[i])
     /\ SpanOf(phys, size) \cap Covered(reserved) = {}
AllocateRawErrors ==
  [][(ba_last'.op = "allocate_raw"
      /\ <<memory, reserved, allocs, ba_last>>'
           # <<memory, reserved, allocs, ba_last>>) =>
       /\ ~IsPowerOfTwo(ba_last'.align) =>
            ba_last'.result = "InvalidAlignment"
       /\ (IsPowerOfTwo(ba_last'.align) /\ ba_last'.size # 0
           /\ NoSpanFits(ba_last'.size, ba_last'.align)) =>
            ba_last'.result = "OutOfMemory"
       /\ ba_last'.result \in {"InvalidAlignment", "OutOfMemory"} =>
            memory' = memory /\ reserved' = reserved]_vars

(***************************************************************************)
(* Page directory: views                                                   *)
(***************************************************************************)
\* The entry the tables hold for virt at level 0, 0 when a table on its path
\* is missing; read level by level from the root.
LeafEntry(virt) ==
  LET e2 == root[page_index(virt, 2)]
      t1 == tables[translate(PageEntry_address(e2))]
      e1 == t1[page_index(virt, 1)]
      t0 == tables[translate(PageEntry_address(e1))]
  IN IF ~is_present(e2) THEN 0
     ELSE IF ~is_present(e1) THEN 0
     ELSE t0[page_index(virt, 0)]
Mapped(virt) == is_present(LeafEntry(virt))

\* C16: an unmap(v) that follows map(v, p, flags) returns Some(p), whatever v
\* was mapped to before, and the unmap(v) after that one returns None.
MapUnmapRoundTrip ==
  [][/\ (pd_last.op = "map" /\ pd_last'.op = "unmap"
          /\ pd_last'.virt = pd_last.virt)
        => (pd_last'.result = "Some" /\ pd_last'.ret = pd_last.phys)
     /\ (pd_after_map = 1 /\ pd_after_map' = 2)
        => (pd_last'.op = "unmap" /\ pd_last'.virt = pd_last.virt
            /\ pd_last'.result = "None")]_vars
\* The second unmap(v) after a map of v to an address with bit 15 set.
MapUnmapRoundTripWitness ==
  /\ pd_after_map = 2
  /\ pd_last.op = "unmap"
  /\ pd_last.result = "None"
  /\ pd_last.virt = -32768

\* C17: unmap(v) of an address with no present leaf entry returns None and
\* leaves every table and the emulated memory's allocation mark as they were.
UnmapAbsentNoEffect ==
  [][(pd_last'.op = "unmap" /\ ~Mapped(pd_last'.virt))
       => (pd_last'.result = "None"
           /\ root' = root /\ tables' = tables
           /\ next_alloc' = next_alloc)]_vars
\* unmap of an address whose level-2 entry is missing, in a directory that
\* has tables.
UnmapAbsentNoEffectWitness ==
  /\ pd_last.op = "unmap"
  /\ pd_last.result = "None"
  /\ DOMAIN tables # {}
  /\ ~is_present(root[page_index(pd_last.virt, 2)])

\* C18: map ends with Ok or with an OutOfMemory result, never with a panic.
MapReportsOutOfMemory ==
  pd_last.op = "map" => pd_last.result \in {"Ok", "OutOfMemory"}

(***************************************************************************)
(* Memory map: views                                                       *)
(***************************************************************************)
StartFrame(r) == r.base \div PAGE_SIZE
EndFrame(r) == RegionEnd(r) \div PAGE_SIZE
\* The usable regions of the boot map whose frames [StartFrame, EndFrame)
\* meet section s.
UsableIn(s) ==
  {i \in 1..Len(map_regions) :
     /\ map_regions[i].usable
     /\ StartFrame(map_regions[i]) < (s + 1) * FRAMES_PER_SECTION
     /\ EndFrame(map_regions[i]) > s * FRAMES_PER_SECTION}
MinF(s) ==
  Min({Max({StartFrame(map_regions[i]), s * FRAMES_PER_SECTION}) :
         i \in UsableIn(s)})
MaxF(s) ==
  Max({Min({EndFrame(map_regions[i]), (s + 1) * FRAMES_PER_SECTION}) :
         i \in UsableIn(s)})
FrameExpected(n) ==
  LET s == n \div FRAMES_PER_SECTION
  IN UsableIn(s) # {} /\ MinF(s) <= n /\ n < MaxF(s)
\* The sections that hold a frame of some region of the boot map.
SectionsOfMap ==
  {s \in 0..Max({0} \cup {EndFrame(map_regions[i]) \div FRAMES_PER_SECTION :
                            i \in 1..Len(map_regions)}) : UsableIn(s) # {}}
RECURSIVE SumOfSpans(_)
SumOfSpans(S) ==
  IF S = {} THEN 0
  ELSE LET s == CHOOSE x \in S : TRUE
       IN (MaxF(s) - MinF(s)) + SumOfSpans(S \ {s})

FreshFrameFlags ==
  (mm_last.op = "frame" /\ mm_last.present) =>
    LET addr == mm_last.n * PAGE_SIZE
        containing == {i \in 1..Len(map_regions) :
                         /\ map_regions[i].base <= addr
                         /\ addr < RegionEnd(map_regions[i])}
    IN /\ ("Reserved" \in mm_last.frame.flags)
            <=> (containing = {} \/ ~map_regions[Max(containing)].usable)
       /\ "Allocated" \notin mm_last.frame.flags
       /\ mm_last.frame.order = 255
\* A frame inside a usable region that a later non-usable region covers.
FreshFrameFlagsWitness ==
  /\ mm_last.op = "frame"
  /\ mm_last.present
  /\ "Reserved" \in mm_last.frame.flags
  /\ \E i \in 1..Len(map_regions) :
       /\ map_regions[i].usable
       /\ map_regions[i].base <= mm_last.n * PAGE_SIZE
       /\ mm_last.n * PAGE_SIZE < RegionEnd(map_regions[i])

(***************************************************************************)
(* Address translator and frame numbers: claims                            *)
(***************************************************************************)
\* C21: in every cell of ADDRESS_TRANSLATOR at most one set_current ever
\* returns (every other one panics), a completed cell keeps its translator,
\* and current() panics while the cell is not complete and returns the
\* stored translator once it is.
TranslatorSetOnce ==
  /\ \A c \in Cells : at_ok[c] <= 1
  /\ \A c \in Cells : once_status[c] # "Complete" => once_data[c] = NoTranslator
  /\ at_last.op = "current" =>
       IF at_last.result = "Ok"
       THEN /\ once_status[CellOf(at_last.exec)] = "Complete"
            /\ at_last.t = once_data[CellOf(at_last.exec)]
       ELSE at_pc[at_last.exec] = "panicked"

\* C22: virt_to_phys(phys_to_virt(p)) = p for the hardware translator with
\* every offset and every p, and for the emulated translator for every p
\* inside its buffer.
RoundTripInverse ==
  (at_last.op = "round_trip"
   /\ (at_last.t.kind = "Hardware"
       \/ (at_last.a >= 0 /\ at_last.a < at_last.t.size)))
    => (at_last.result = "Ok" /\ at_last.c = at_last.a)
\* A round trip whose addition wraps past the end of the address space.
RoundTripInverseWitness ==
  /\ at_last.op = "round_trip"
  /\ at_last.result = "Ok"
  /\ at_last.t.kind = "Hardware"
  /\ at_last.t.direct_map_offset < 0
  /\ at_last.a > 0
  /\ at_last.b >= 0

\* C23: FrameNumber::from(fn.start()) = fn and fn.start() is a multiple of
\* PAGE_SIZE when fn.start() is a physical address of the architecture;
\* FrameNumber::from(a) is the fn with fn * PAGE_SIZE <= a < (fn + 1) *
\* PAGE_SIZE.
FrameNumberRoundTrip ==
  /\ (at_last.op = "frame_start" /\ at_last.result = "Ok")
       => (at_last.c = at_last.a /\ at_last.b % PAGE_SIZE = 0)
  /\ (at_last.op = "frame_start" /\ at_last.a >= 0
      /\ validate_physical(at_last.a * PAGE_SIZE))
       => at_last.result = "Ok"
  /\ at_last.op = "frame_from"
       => (at_last.c * PAGE_SIZE <= at_last.a
           /\ at_last.a < (at_last.c + 1) * PAGE_SIZE)
\* The frame of an address that is not page-aligned.
FrameNumberRoundTripWitness ==
  /\ at_last.op = "frame_from"
  /\ at_last.a = PAGE_SIZE + 1
  /\ at_last.c = 1

(***************************************************************************)
(* Kernel allocator: claims                                                *)
(***************************************************************************)
\* The least k with 2^k pages >= max(size, align) bytes.
OrderOfLayout(size, align) ==
  LET m == IF size > align THEN size ELSE align
  IN CHOOSE k \in 0..(MAX_ORDER + 2) :
       /\ (2 ^ k) * PAGE_SIZE >= m
       /\ k = 0 \/ (2 ^ (k - 1)) * PAGE_SIZE < m

\* C24: in PMM mode a successful alloc takes 2^k frames with k the order
\* of its layout, dealloc with that layout gives 2^k frames back, and a
\* dealloc that directly follows its alloc restores free_frames(); in the
\* None state alloc returns null and neither call changes the PMM.
KernelAllocOrder ==
  LET k == OrderOfLayout(ka_last.size, ka_last.align)
  IN /\ (ka_last.op = "alloc" /\ ka_last.mode = "PMM" /\ ka_last.ptr # 0)
          => ka_last.free_after = ka_last.free_before - 2 ^ k
     /\ (ka_last.op = "alloc" /\ ka_last.ptr = 0)
          => ka_last.free_after = ka_last.free_before
     /\ (ka_last.op = "alloc" /\ ka_last.mode = "None") => ka_last.ptr = 0
     /\ (ka_last.op = "dealloc" /\ ka_last.mode = "PMM" /\ ka_last.ptr # 0)
          => ka_last.free_after = ka_last.free_before + 2 ^ k
     /\ (ka_last.op = "dealloc" /\ ka_last.free_at_alloc # -1)
          => ka_last.free_after = ka_last.free_at_alloc
     /\ (ka_last.op = "dealloc" /\ (ka_last.mode = "None" \/ ka_last.ptr = 0))
          => ka_last.free_after = ka_last.free_before
\* The dealloc of a three-page block directly after its alloc.
KernelAllocOrderWitness ==
  /\ ka_last.op = "dealloc"
  /\ ka_last.mode = "PMM"
  /\ ka_last.size = 3 * 4096
  /\ ka_last.free_at_alloc = ka_last.free_after
  /\ ka_last.free_after = ka_last.free_before + 4

(***************************************************************************)
(* Concurrent free list: claims                                            *)
(***************************************************************************)
\* The blocks reached from the head of the order-0 list.
OnList == {phys_to_ptr(ListOf(0)[i]) : i \in 1..Len(ListOf(0))}
HeldBlocks == UNION {fl_owned[p] : p \in Executors}

\* C25: under every interleaving of the steps of push and pop the list is a
\* stack of distinct blocks, no block on it is held by an executor, no two
\* executors hold the same block, and every block is on the list or held.
ConcurrentStack ==
  /\ Len(ListOf(0)) = Cardinality(OnList)
  /\ OnList \cap HeldBlocks = {}
  /\ \A p, q \in Executors : p # q => fl_owned[p] \cap fl_owned[q] = {}
  /\ OnList \cup HeldBlocks = DOMAIN mem

(***************************************************************************)
(* Boot sequence: claims                                                   *)
(***************************************************************************)
\* The frames that the bytes base .. base + size - 1 touch.
FramesOfRange(base, size) ==
  {f \in 0..(max_address(boot_map) \div PAGE_SIZE) :
     f * PAGE_SIZE < base + size /\ (f + 1) * PAGE_SIZE > base}
\* Frames holding storage the block allocator handed out and that is still
\* in use, and frames of the ranges the block allocator holds reserved.
HandedOutFrames ==
  UNION {FramesOfRange(virt_to_phys(a.addr), a.size) : a \in allocs}
BaReservedFrames ==
  UNION {FramesOfRange(reserved[i].base, reserved[i].size) :
           i \in 1..Len(reserved)}
KernelHeldFrames ==
  UNION {BlockFrames(virt_to_phys(a.ptr), layout_order(a.size, a.align)) :
           a \in ka_live}

\* C26: at every point of the boot sequence no frame of storage the block
\* allocator handed out, and no frame of a range it holds reserved, lies in
\* a block of a free list of the physical memory manager or in a block the
\* physical memory manager returned.
BootMemoryDisjoint ==
  (HandedOutFrames \cup BaReservedFrames)
    \cap (FreeFrameSet \cup KernelHeldFrames) = {}

(***************************************************************************)
(* Allocation and splitting: claims                                        *)
(***************************************************************************)
\* The orders from k up whose free list holds a block.
NonEmptyFrom(k) == {o \in k..MAX_ORDER : ListOf(o) # << >>}

\* C27: allocate(k) with 0 <= k <= MAX_ORDER returns a block that was on
\* the lowest-order non-empty list j >= k and leaves the lists above j
\* alone; it reports OutOfMemory exactly when the lists k..MAX_ORDER are all
\* empty, and then changes nothing.
AllocateLowestOrder ==
  [][(last'.op = "allocate" /\ last'.order <= MAX_ORDER) =>
       LET k == last'.order
       IN /\ last'.result = "OutOfMemory" <=> NonEmptyFrom(k) = {}
          /\ NonEmptyFrom(k) = {} => AllocatorUnchanged /\ live' = live
          /\ NonEmptyFrom(k) # {} =>
               LET j == Min(NonEmptyFrom(k))
               IN /\ last'.result = "Ok"
                  /\ Block(last'.addr, j) \in FreeBlocks
                  /\ Block(last'.addr, j) \notin FreeBlocks'
                  /\ count'[j] = count[j] - 1
                  /\ \A o \in Orders :
                       (o > j \/ o < k) =>
                         ListOf(o)' = ListOf(o) /\ count'[o] = count[o]
    ]_vars
\* An allocate found the lists from its order up empty while blocks of lower
\* orders were free.
AllocateLowestOrderWitness ==
  /\ last.op = "allocate" /\ last.order <= MAX_ORDER
  /\ last.result = "OutOfMemory"
  /\ FreeBlocks # {}

\* C28: an allocate(k) that pops block B from list j > k returns B and adds
\* exactly one block to every list o with k <= o < j, at B + 2^o * PAGE_SIZE
\* and with leading-frame order o; the returned block and the added blocks
\* cover exactly the frames of the popped block; free_frames() goes down by
\* 2^k.
SplitLaw ==
  [][(last'.op = "allocate" /\ last'.order <= MAX_ORDER
      /\ last'.result = "Ok") =>
       LET k == last'.order
           j == Min(NonEmptyFrom(k))
           B == last'.addr
           Buddy(o) == B + BlockSize(o)
       IN /\ B = ListOf(j)[1]
          /\ \A o \in k..(j - 1) :
               /\ ListOf(o)' = <<Buddy(o)>> \o ListOf(o)
               /\ count'[o] = count[o] + 1
               /\ memory_map'[frame_number(Buddy(o))].order = o
          /\ BlockFrames(B, k)
               \cup UNION {BlockFrames(Buddy(o), o) : o \in k..(j - 1)}
               = BlockFrames(B, j)
          /\ \A o \in k..(j - 1) :
               BlockFrames(B, k) \cap BlockFrames(Buddy(o), o) = {}
          /\ free_frames(PMM)' = free_frames(PMM) - 2 ^ k
    ]_vars
\* An allocate(0) has split an order-2 block: the buddies of orders 0 and 1
\* are free next to the returned frame.
SplitLawWitness ==
  /\ last.op = "allocate" /\ last.result = "Ok" /\ last.order = 0
  /\ Cardinality(live) = 1
  /\ \E b \in live : b.addr = last.addr /\ b.order = 0
  /\ ListOf(0) = <<last.addr + BlockSize(0)>>
  /\ ListOf(1) = <<last.addr + BlockSize(1)>>
  /\ ListOf(2) = << >>

(***************************************************************************)
(* Coalescing: claims                                                      *)
(***************************************************************************)
\* The frames of region i of the boot map.
RegionFrames(i) ==
  {f \in PhysFrames(boot_map) :
     boot_map[i].base <= f * PAGE_SIZE
       /\ (f + 1) * PAGE_SIZE <= RegionEnd(boot_map[i])}
\* The block a deallocate call of order k has pushed when it merged: the
\* head of a list above k that has grown.
MergedInto(k, j) == j > k /\ count'[j] = count[j] + 1

\* C29: every free block that a merge in deallocate produces consists only
\* of frames of one usable region of the boot map, and none of its frames is
\* Reserved or without metadata.
MergeWithinRegion ==
  [][(last'.op \in {"seed", "deallocate"} /\ last'.order <= MAX_ORDER) =>
       \A j \in Orders :
         MergedInto(last'.order, j) =>
           LET merged == BlockFrames(ptr_to_phys(head'[j]), j)
           IN /\ \E i \in 1..Len(boot_map) :
                   boot_map[i].usable /\ merged \subseteq RegionFrames(i)
              /\ merged \subseteq DOMAIN memory_map
              /\ \A f \in merged : "Reserved" \notin memory_map'[f].flags
    ]_vars

\* The blocks of list k of allocator state s, from the head on.
RECURSIVE WalkIn(_, _, _)
WalkIn(s, p, fuel) ==
  IF p = NULL \/ fuel = 0 THEN << >>
  ELSE <<ptr_to_phys(p)>> \o WalkIn(s, s.mem[p], fuel - 1)
ListIn(s, k) == WalkIn(s, s.head[k], Cardinality(DOMAIN s.mem))
Occurrences(seq, x) == Cardinality({i \in 1..Len(seq) : seq[i] = x})

\* Every merge decision of the loop of deallocate, from the block at addr
\* of the given order on, finds the buddy exactly once on the list of that
\* order, and remove_from_free_list takes exactly that block off.
RECURSIVE MergesSound(_, _, _)
MergesSound(s, addr, order) ==
  LET buddy == buddy_address(addr, order)
      s2 == remove_from_free_list(s, buddy, order)
  IN IF order >= MAX_ORDER \/ ~is_buddy_free(s, buddy, order) THEN TRUE
     ELSE /\ Occurrences(ListIn(s, order), buddy) = 1
          /\ Occurrences(ListIn(s2, order), buddy) = 0
          /\ Len(ListIn(s2, order)) = Len(ListIn(s, order)) - 1
          /\ s2.count[order] = s.count[order] - 1
          /\ MergesSound(s2, Min({addr, buddy}), order + 1)

\* No list below MAX_ORDER holds a block together with its buddy.
MaximallyCoalesced ==
  \A b \in FreeBlocks :
    b.order < MAX_ORDER =>
      Block(buddy_address(b.addr, b.order), b.order) \notin FreeBlocks

\* C30: whenever deallocate of a live allocation decides to merge, the buddy
\* is on the free list of that order and is taken off exactly once; after
\* every operation no list below MAX_ORDER holds a block and its buddy; and
\* the deallocate raises free_frames() by 2^k, k the order of the allocation.
MergeDecisionsSound ==
  [][/\ \A b \in live :
          (live' = live \ {b} /\ last'.op = "deallocate") =>
            /\ MergesSound(set_order(clear_flag(PMM, frame_number(b.addr),
                                                "Allocated"),
                                     frame_number(b.addr), b.order),
                           b.addr, b.order)
            /\ free_frames(PMM)' = free_frames(PMM) + 2 ^ b.order
     /\ MaximallyCoalesced'
    ]_vars

(***************************************************************************)
(* Block allocator: further claims                                         *)
(***************************************************************************)
\* C31: a call of the block allocator (add, reserve, allocate_raw, free)
\* that fails with RegionsFull leaves memory[] and reserved[] as they were
\* before the call.
RegionsFullNoEffect ==
  [][ba_last'.result = "RegionsFull" =>
       memory' = memory /\ reserved' = reserved]_vars

\* Address a is a place for size bytes with alignment align in region i of
\* memory[]: aligned, with its pages inside the region and none of them
\* reserved.  No place holds usize::MAX bytes.
FitsAt(i, a, size, align) ==
  /\ size # USIZE_MAX
  /\ a % align = 0 /\ a % PAGE_SIZE = 0
  /\ memory[i].base <= a /\ a + PageCeil(size) <= RegionEnd(memory[i])
  /\ SpanOf(a, size) \cap Covered(reserved) = {}
PlacesIn(i, size, align) ==
  {a \in 0..TopOfMemory : FitsAt(i, a, size, align)}
RegionsWithPlace(size, align) ==
  {i \in 1..Len(memory) : PlacesIn(i, size, align) # {}}
\* Every jump of the search loop past a reserved region moves the cursor
\* up, so the loop ends.
JumpsForward(size, align) ==
  \A i \in 1..Len(memory) :
    \A current \in RegionBytes(memory[i]) :
      LET aligned_current == AndNot(current + align - 1, align - 1)
          hit == first_overlap(reserved,
                   MemoryRegion(aligned_current, PageCeil(size)))
      IN hit # -1 => RegionEnd(reserved[hit + 1]) > current

\* C32: allocate_raw(size, align) with size > 0 and align a power of two
\* returns the direct-mapped address of the lowest place in the first
\* region of memory[] that has one, returns OutOfMemory only when no region
\* has a place, and its search loop ends.
FirstFit ==
  [][(/\ ba_last'.op = "allocate_raw"
      /\ <<memory, reserved, allocs, ba_last>>'
           # <<memory, reserved, allocs, ba_last>>
      /\ ba_last'.size # 0 /\ IsPowerOfTwo(ba_last'.align)) =>
       LET size == ba_last'.size
           align == ba_last'.align
           with == RegionsWithPlace(size, align)
       IN /\ ba_last'.result = "Ok" =>
               /\ with # {}
               /\ ba_last'.addr =
                    phys_to_virt(Min(PlacesIn(Min(with), size, align)))
          /\ ba_last'.result = "OutOfMemory" => with = {}
          /\ size # USIZE_MAX => JumpsForward(size, align)
    ]_vars

\* The bytes of the pages that lie entirely inside [base, base + size), and
\* the bytes of the pages that meet it.
WholePagesIn(base, size) ==
  UNION {(n * PAGE_SIZE)..((n + 1) * PAGE_SIZE - 1) :
           n \in {k \in 0..((base + size) \div PAGE_SIZE) :
                    base <= k * PAGE_SIZE
                      /\ (k + 1) * PAGE_SIZE <= base + size}}
PagesMeeting(base, size) ==
  UNION {(n * PAGE_SIZE)..((n + 1) * PAGE_SIZE - 1) :
           n \in {k \in 0..((base + size) \div PAGE_SIZE) :
                    k * PAGE_SIZE < base + size
                      /\ base < (k + 1) * PAGE_SIZE}}
PageAligned(arr) ==
  \A i \in 1..Len(arr) :
    arr[i].base % PAGE_SIZE = 0 /\ arr[i].size % PAGE_SIZE = 0

\* C33: a successful add(base, size) adds to memory[] exactly the whole
\* pages inside [base, base + size), a successful reserve(base, size) with
\* size > 0 adds to reserved[] exactly the pages that meet the range, and
\* every region of both arrays has a page-aligned base and size after every
\* call.
PageRounding ==
  [][/\ (ba_last'.op = "add" /\ ba_last'.result = "Ok") =>
          /\ Covered(memory') =
               Covered(memory) \cup WholePagesIn(ba_last'.base, ba_last'.size)
          /\ reserved' = reserved
     /\ (ba_last'.op = "reserve" /\ ba_last'.result = "Ok") =>
          /\ Covered(reserved') =
               Covered(reserved)
                 \cup (IF ba_last'.size > 0
                       THEN PagesMeeting(ba_last'.base, ba_last'.size)
                       ELSE {})
          /\ memory' = memory
     /\ PageAligned(memory') /\ PageAligned(reserved')
    ]_vars
\* An unaligned range was reserved after an add of a range with unaligned
\* base and end.
PageRoundingWitness ==
  /\ ba_last.op = "reserve" /\ ba_last.base = PAGE_SIZE + 8
  /\ ba_last.result = "Ok"
  /\ memory = <<MemoryRegion(PAGE_SIZE, BlockBytes - 2 * PAGE_SIZE)>>
  /\ reserved = <<MemoryRegion(PAGE_SIZE, PAGE_SIZE)>>

(***************************************************************************)
(* Memory map: further claims                                              *)
(***************************************************************************)
SectionBytes == FRAMES_PER_SECTION * PAGE_SIZE

\* C34: the memory map built by from_boot_map has
\* ceil(max_addr / (FRAMES_PER_SECTION * PAGE_SIZE)) sections, max_addr the
\* largest base + length of the boot map.
SectionCount ==
  mm_last.result = "Ok" =>
    Len(sections) =
      (max_address(map_regions) + SectionBytes - 1) \div SectionBytes

(***************************************************************************)
(* Page directory: further claims                                          *)
(***************************************************************************)
\* The tables the root table links (level 1), and the present entries of
\* the root table and of those tables: the intermediate entries.
Level1Tables ==
  {translate(PageEntry_address(root[i])) :
     i \in {j \in 0..(ENTRY_COUNT - 1) : is_present(root[j])}}
IntermediateEntries ==
  {<<0, i, root[i]>> : i \in {j \in 0..(ENTRY_COUNT - 1) : is_present(root[j])}}
    \cup UNION {{<<t, i, tables[t][i]>> :
                   i \in {j \in 0..(ENTRY_COUNT - 1) :
                            is_present(tables[t][j])}} :
                  t \in Level1Tables}
\* The levels on the path of virt whose entry is not present.
MissingLevels(virt) ==
  LET e2 == root[page_index(virt, 2)]
      t1 == translate(PageEntry_address(e2))
  IN IF ~is_present(e2) THEN 2
     ELSE IF ~is_present(tables[t1][page_index(virt, 1)]) THEN 1
     ELSE 0

\* C35: no call removes or changes a present intermediate entry or a linked
\* table; unmap allocates nothing; map allocates one table for every level
\* of its path whose entry is not present, at most PAGE_TABLE_LEVELS - 1,
\* and none for a level it shares with an earlier map.
IntermediateTablesStay ==
  [][/\ IntermediateEntries \subseteq IntermediateEntries'
     /\ DOMAIN tables \subseteq DOMAIN tables'
     /\ pd_last'.op = "unmap" =>
          DOMAIN tables' = DOMAIN tables /\ root' = root
     /\ (pd_last'.op = "map" /\ pd_last'.result = "Ok") =>
          /\ Cardinality(DOMAIN tables') =
               Cardinality(DOMAIN tables) + MissingLevels(pd_last'.virt)
          /\ MissingLevels(pd_last'.virt) <= PAGE_TABLE_LEVELS - 1
    ]_vars
\* Two pages that share their tables were mapped with two tables in all,
\* and one of them was unmapped: the tables are still linked.
IntermediateTablesStayWitness ==
  /\ pd_last.op = "unmap" /\ pd_last.virt = 0 /\ pd_last.result = "Some"
  /\ Mapped(PAGE_SIZE) /\ ~Mapped(0)
  /\ Cardinality(DOMAIN tables) = 2
  /\ MissingLevels(0) = 0

\* Page-aligned canonical addresses next to the ones mapped: in the same
\* level-0 table, in another level-0 table of the same level-1 table, in
\* another level-1 table, and in the upper half.
ProbeVirts ==
  Virts \cup {15 * PAGE_SIZE, 17 * PAGE_SIZE, 257 * PAGE_SIZE, 0 - PAGE_SIZE}
\* What unmap(virt) would return.
UnmapValue(pd, virt) ==
  LET r == unmap(pd, virt) IN <<r.result, r.phys>>

\* The directory after the call that pd_last' records.
AfterCall ==
  IF pd_last'.op = "map"
  THEN map(PD, pd_last'.virt, pd_last'.phys, pd_last'.flags).pd
  ELSE unmap(PD, pd_last'.virt).pd

\* C36: a map or unmap of v leaves what unmap(v') would return unchanged
\* for every other page-aligned v', and after the first map into an empty
\* directory every address other than v is unmapped.
OtherAddressesUnchanged ==
  [][pd_last'.op \in {"map", "unmap"} =>
       LET after == AfterCall
       IN /\ root' = after.root /\ tables' = after.tables
          /\ \A other \in ProbeVirts \ {pd_last'.virt} :
               LET now == UnmapValue(after, other)
               IN /\ now = UnmapValue(PD, other)
                  /\ DOMAIN tables = {} => now = <<"None", 0>>
    ]_vars

\* A page was mapped into the level-0 table that already maps its
\* neighbour.
OtherAddressesUnchangedWitness ==
  /\ pd_last.op = "map" /\ pd_last.virt = PAGE_SIZE /\ pd_last.result = "Ok"
  /\ Mapped(0) /\ Mapped(PAGE_SIZE)
  /\ PageEntry_address(LeafEntry(0)) # PageEntry_address(LeafEntry(PAGE_SIZE))


\* C37: every alloc and dealloc call of the kernel allocator eventually
\* returns (the handler's call returns before the handler panics), also
\* when the interrupt preempts a task that holds the lock of the facade.
\* A call of the task of processor 0 need not return once the handler has
\* panicked on that processor, nor any call once the allocator panicked.
KernelCallsReturn ==
  \A c \in Contexts :
    (ka_pc[c] \in {"lock", "held"})
      ~> (ka_pc[c] \in {"idle", "panicked"} \/ ka_pc["irq0"] = "panicked"
          \/ stopped)


\* The locks are held by the executors at the positions that hold them.
LocksHeld ==
  /\ memory_locked <=> \E p \in Executors : ba_pc[p] \in {"reserved", "search"}
  /\ reserved_locked <=> \E p \in Executors : ba_pc[p] \in {"search", "subtract"}
\* While an executor is inside a call, some executor can take a step of its
\* call.
LocksNeverDeadlock ==
  (\E p \in Executors : ba_pc[p] # "idle")
    => \E p \in Executors :
         \/ ba_pc[p] \in {"search", "subtract"}
         \/ ba_pc[p] = "memory" /\ ~memory_locked
         \/ ba_pc[p] \in {"reserved", "free"} /\ ~reserved_locked
\* The blocks returned and not yet passed to deallocate are disjoint.
SpansDisjoint ==
  \A a \in allocs :
    /\ a.dup = 0
    /\ \A other \in allocs \ {a} : HeldSpan(a) \cap HeldSpan(other) = {}

\* C38: concurrent Allocator::allocate and deallocate calls on one
\* BlockAllocator never deadlock (the locks are taken in the order memory,
\* reserved and held over the search and the reservation) and never return
\* overlapping spans.
SharedAllocatorSound == LocksHeld /\ LocksNeverDeadlock /\ SpansDisjoint


\* C39: atomic_clear(flag) clears exactly that flag, as the non-atomic
\* clear does: after it atomic_test(flag) is false and the other flag is
\* as before, in particular after an atomic_set(flag).
AtomicClearClears ==
  [][ff_last'.op = "atomic_clear" =>
       LET f == ff_last'.flag
       IN /\ ff_bits' = FrameFlags_clear(ff_bits, f)
          /\ ~atomic_test(ff_bits', f)
          /\ \A g \in FlagNames \ {f} :
               atomic_test(ff_bits', g) = atomic_test(ff_bits, g)
    ]_vars


\* 2^k * len(list k), summed over the orders from k on.
RECURSIVE ListedFrames(_)
ListedFrames(k) ==
  IF k > MAX_ORDER THEN 0
  ELSE (2 ^ k) * Len(ListOf(k)) + ListedFrames(k + 1)
\* Blocks that are not on free list k.
NotOnList(k) ==
  {b \in DOMAIN mem : \A i \in 1..Len(ListOf(k)) : ListOf(k)[i] # ptr_to_phys(b)}

\* C40: between the calls the count of every free list is the number of
\* blocks reachable from its head, so is_empty and find_free_order agree
\* with the heads and free_frames() is the sum of 2^k * len(list k); a
\* remove_from_free_list of a block that is not on the list changes neither
\* the list nor its count.
CountMatchesList ==
  (\A p \in Executors : fl_pc[p] = "idle") =>
    /\ \A k \in Orders :
         /\ count[k] = Len(ListOf(k))
         /\ is_empty(PMM, k) <=> head[k] = NULL
         /\ find_free_order(PMM, k)
              = (IF \A o \in k..MAX_ORDER : head[o] = NULL THEN -1
                 ELSE Min({o \in k..MAX_ORDER : head[o] # NULL}))
         /\ \A b \in NotOnList(k) :
              remove_from_free_list(PMM, ptr_to_phys(b), k) = PMM
    /\ free_frames(PMM) = ListedFrames(0)

====
